---- MODULE Spec2Model ----
(***************************************************************************)
(* A model of the GO semantic-similarity service of hpinetbackend-next     *)
(* (src/src/services/annotationService.js, lines 472-1269): the            *)
(* process-wide ontology graph and its single-flight loader, the download  *)
(* of the OBO file, the validation of a job's method and score names, and  *)
(* the scoring loop of runGoSimJob.                                        *)
(*                                                                         *)
(* Strings whose characters matter (method and score names) are tuples of  *)
(* one-character strings, so that trim() and toLowerCase() are computed.   *)
(* Scores are integers in thousandths (round3 keeps three decimals).       *)
(***************************************************************************)
EXTENDS Integers, Sequences, FiniteSets, TLC

NULL == "null"
\* the initial value of graphPromise (null); loads are numbered from 1
NoPromise == 0

\* ------------------------------------------------------------------------
\* Bounds of the model
\* ------------------------------------------------------------------------
\* number of runGoSimJob calls the process receives
NumCalls == 2
\* number of loadGoGraph attempts the process may start
MaxLoads == 2

\* ------------------------------------------------------------------------
\* Program constants
\* ------------------------------------------------------------------------
\* default value of maxRedirects of downloadFileWithRedirect
DefaultMaxRedirects == 5

\* ------------------------------------------------------------------------
\* String(x).trim().toLowerCase() on tuples of characters
\* ------------------------------------------------------------------------
Alphabet ==
  [upper |-> <<"A","B","C","D","E","F","G","H","I","J","K","L","M",
               "N","O","P","Q","R","S","T","U","V","W","X","Y","Z">>,
   lower |-> <<"a","b","c","d","e","f","g","h","i","j","k","l","m",
               "n","o","p","q","r","s","t","u","v","w","x","y","z">>]
WhiteSpace == {" ", "\t", "\n"}

ToLowerCase(s) ==
  [i \in 1..Len(s) |->
     IF \E k \in 1..26 : Alphabet.upper[k] = s[i]
     THEN Alphabet.lower[CHOOSE k \in 1..26 : Alphabet.upper[k] = s[i]]
     ELSE s[i]]

RECURSIVE TrimStart(_)
TrimStart(s) ==
  IF s # <<>> /\ Head(s) \in WhiteSpace THEN TrimStart(Tail(s)) ELSE s

RECURSIVE TrimEnd(_)
TrimEnd(s) ==
  IF s # <<>> /\ s[Len(s)] \in WhiteSpace
  THEN TrimEnd(SubSeq(s, 1, Len(s) - 1)) ELSE s

\* String(method || "").trim().toLowerCase(); a missing field is <<>>
Normalize(s) == ToLowerCase(TrimEnd(TrimStart(s)))

\* ------------------------------------------------------------------------
\* getMethodFn / getScoreFn
\* ------------------------------------------------------------------------
\* the names the code compares a normalised name with
Names ==
  [wang |-> <<"w","a","n","g">>,
   resnik |-> <<"r","e","s","n","i","k">>,
   lin |-> <<"l","i","n">>,
   pekar |-> <<"p","e","k","a","r">>,
   lca |-> <<"l","o","w","e","s","t","_","c","o","m","m","o","n","_",
             "a","n","c","e","s","t","o","r">>,
   max |-> <<"m","a","x">>,
   avg |-> <<"a","v","g">>,
   bma |-> <<"b","m","a">>]

\* the own properties of the object literal methodMap
MethodMapOwn ==
  [k \in {Names.wang, Names.resnik, Names.lin, Names.pekar, Names.lca} |->
     IF k = Names.wang THEN "wang"
     ELSE IF k = Names.lin THEN "lin"
     ELSE IF k = Names.pekar THEN "pekar"
     ELSE "resnik"]

\* methodMap is an ordinary object: a property read that misses the own
\* properties continues on Object.prototype, whose members are truthy.
\* The name is in lower case when it is looked up, and the members of
\* Object.prototype spelt without a capital are constructor and __proto__.
ObjectPrototype ==
  [k \in {<<"c","o","n","s","t","r","u","c","t","o","r">>,
           <<"_","_","p","r","o","t","o","_","_">>} |->
     IF Head(k) = "c" THEN "Object" ELSE "Object.prototype"]

GetMethodFn(method) ==
  LET normalized == Normalize(method)
  IN  IF normalized \in DOMAIN MethodMapOwn THEN MethodMapOwn[normalized]
      ELSE IF normalized \in DOMAIN ObjectPrototype
           THEN ObjectPrototype[normalized]
      ELSE NULL

GetScoreFn(score) ==
  LET normalized == Normalize(score)
  IN  IF normalized = Names.max THEN "simMax"
      ELSE IF normalized = Names.avg THEN "simAvg"
      ELSE IF normalized = Names.bma THEN "simBma"
      ELSE NULL

\* toGeneList on an array value: trim every item and drop the empty ones
\* (a gene token is kept whole; "" stands for a blank token)
ToGeneList(value) == SelectSeq(value, LAMBDA item : item # "")

\* ------------------------------------------------------------------------
\* State
\* ------------------------------------------------------------------------
VARIABLES
  graphPromise,  \* the module-level cache: NoPromise or the number of a load
  loads,         \* the loadGoGraph attempts started so far, in order
  destFile,      \* what is at env.GO_OBO_PATH: "absent", "good", "small"
                 \* ("partial": a body that was cut short)
  tempFile,      \* what is at "<destination>.download"
  autoDownload,  \* env.GO_AUTO_DOWNLOAD_OBO
  calls          \* the runGoSimJob calls, numbered by arrival

\* the locals of one run of loadGoGraph over the lines of the OBO file
VARIABLES
  nodes,         \* Set of term ids
  parents,       \* Map: term id -> list of {id, type}
  children,      \* Map: term id -> list of term ids
  altIds,        \* Map: alt id -> term id
  blockType,     \* the tag of the stanza flushed last
  blockLines,    \* its lines
  flushed,       \* the number of stanzas flushed so far
  referenced,    \* history: the ids that the accepted terms flushed so far
                 \* have as their id or as the target of a relationship
  loadResult     \* "reading", then "graph" or "too small"

\* one run of the scoring part of runGoSimJob on given lookup results
VARIABLES
  job            \* the payload, the rows of the two lookups, the outcome

\* the memo caches of the loaded graph (lines 734-738) and the calls made
\* on it
VARIABLES
  ancestorCache,   \* Map: term id -> its ancestors
  descendantCache, \* Map: term id -> its descendants
  lowerBoundCache, \* Map: term id -> number
  sValueCache,     \* Map: term id -> Map of S-values
  pathCache,       \* Map: <<src, dst>> (the key `${src}->${dst}`) -> number
  call,            \* the call made last: its name, arguments and result
  queries          \* the number of calls made so far

procVars == <<graphPromise, loads, destFile, tempFile, autoDownload, calls>>
parseVars ==
  <<nodes, parents, children, altIds, blockType, blockLines, flushed,
    referenced, loadResult>>
jobVars == <<job>>
queryVars ==
  <<ancestorCache, descendantCache, lowerBoundCache, sValueCache, pathCache,
    call, queries>>
vars == <<procVars, parseVars, jobVars, queryVars>>

\* ------------------------------------------------------------------------
\* Inputs of the process model
\* ------------------------------------------------------------------------
\* a species name
Human == <<"H","u","m","a","n">>

Payload(m, s, hs, ps, hg, pg) ==
  [method |-> m, score |-> s, hspecies |-> hs, pspecies |-> ps,
   host_genes |-> hg, pathogen_genes |-> pg]

\* request bodies a client may post to /goppi
Payloads ==
  { Payload(<<"W","A","N","G">>, <<" ","B","m","a">>, Human, Human,
            <<"h1", "">>, <<"p1">>),
    Payload(<<"f","o","o">>, Names.max, Human, Human, <<"h1">>, <<"p1">>),
    Payload(Names.wang, <<"f","o","o">>, Human, Human, <<"h1">>, <<"p1">>),
    Payload(Names.wang, Names.max, <<" ">>, Human, <<"h1">>, <<"p1">>),
    Payload(Names.lin, Names.avg, Human, Human, <<"">>, <<"p1">>) }

NewCall ==
  [pc |-> "new", payload |-> Payload(<<>>, <<>>, <<>>, <<>>, <<>>, <<>>), awaits |-> 0, fetchH |-> "none",
   fetchP |-> "none", persist |-> "none", error |-> "none", graph |-> 0]

NewLoad ==
  [pc |-> "access", redirects |-> 0, body |-> "none",
   dl |-> "none", inner |-> "pending", outer |-> "pending"]

LoadIds == 1..Len(loads)
CallIds == 1..NumCalls

\* the variables of the other specifications of this module stay put
ParseIdle ==
  /\ nodes = {} /\ parents = <<>> /\ children = <<>> /\ altIds = <<>>
  /\ blockType = NULL /\ blockLines = <<>> /\ flushed = 0
  /\ referenced = {} /\ loadResult = "idle"

JobIdle == job = [pc |-> "idle"]

QueryIdle ==
  /\ ancestorCache = <<>> /\ descendantCache = <<>>
  /\ lowerBoundCache = <<>> /\ sValueCache = <<>> /\ pathCache = <<>>
  /\ call = [op |-> "none"] /\ queries = 0

Init ==
  /\ graphPromise = NoPromise
  /\ loads = <<>>
  /\ destFile \in {"absent", "good", "small"}
  /\ tempFile = "absent"
  /\ autoDownload \in BOOLEAN
  /\ calls = [c \in CallIds |-> NewCall]
  /\ ParseIdle
  /\ JobIdle
  /\ QueryIdle

\* ------------------------------------------------------------------------
\* getGoGraph (lines 1116-1125).  The body runs without interruption up to
\* its return: the test of graphPromise, the synchronous prefix of
\* loadGoGraph (up to the fs.access of isReadableFile) and the assignment.
\* The result is the pair <<graphPromise', loads'>>; the caller awaits the
\* load numbered graphPromise'.
\* ------------------------------------------------------------------------
MutGetGoGraph == <<Len(loads) + 1, Append(loads, NewLoad)>>

GetGoGraph ==
  IF graphPromise # NoPromise
  THEN <<graphPromise, loads>>
  ELSE <<Len(loads) + 1, Append(loads, NewLoad)>>

\* ------------------------------------------------------------------------
\* runGoSimJob, first synchronous part (lines 1192-1234): validation, the
\* gene lists, then the two lookups and getGoGraph() are all issued before
\* the await of Promise.all.
\* ------------------------------------------------------------------------
ValidationError(p) ==
  IF Normalize(p.hspecies) = <<>> \/ Normalize(p.pspecies) = <<>>
  THEN "400 Missing required fields"
  ELSE IF GetMethodFn(p.method) = NULL THEN "400 Unsupported GO method"
  ELSE IF GetScoreFn(p.score) = NULL THEN "400 Unsupported GO score strategy"
  ELSE "none"

MutRunGoSimJobStart(c, p) ==
  LET err == ValidationError(p)
      got == GetGoGraph
  IN  /\ Len(got[2]) <= MaxLoads
      /\ graphPromise' = got[1]
      /\ loads' = got[2]
      /\ IF err # "none"
         THEN calls' = [calls EXCEPT ![c].pc = "failed", ![c].payload = p,
                                     ![c].error = err, ![c].awaits = got[1]]
         ELSE calls' = [calls EXCEPT ![c].pc = "waiting", ![c].payload = p,
                                     ![c].fetchH = "pending",
                                     ![c].fetchP = "pending",
                                     ![c].awaits = got[1]]

RunGoSimJobStart(c, p) ==
  LET err == ValidationError(p)
      got == GetGoGraph
  IN  IF err # "none"
      THEN /\ calls' = [calls EXCEPT ![c].pc = "failed", ![c].payload = p,
                                     ![c].error = err]
           /\ UNCHANGED <<graphPromise, loads>>
      ELSE IF ToGeneList(p.host_genes) = <<>>
              \/ ToGeneList(p.pathogen_genes) = <<>>
      THEN /\ calls' = [calls EXCEPT ![c].pc = "persisting", ![c].payload = p,
                                     ![c].persist = "sentinel"]
           /\ UNCHANGED <<graphPromise, loads>>
      ELSE /\ Len(got[2]) <= MaxLoads
           /\ graphPromise' = got[1]
           /\ loads' = got[2]
           /\ calls' = [calls EXCEPT ![c].pc = "waiting", ![c].payload = p,
                                     ![c].fetchH = "pending",
                                     ![c].fetchP = "pending",
                                     ![c].awaits = got[1]]

RunGoSimJob(c) ==
  /\ calls[c].pc = "new"
  /\ \A b \in CallIds : b < c => calls[b].pc # "new"
  /\ \E p \in Payloads : RunGoSimJobStart(c, p)
  /\ UNCHANGED <<destFile, tempFile, autoDownload>>
  /\ UNCHANGED <<parseVars, jobVars, queryVars>>

\* ------------------------------------------------------------------------
\* loadGoGraph, ensureGoOboFile and downloadFileWithRedirect, one action
\* per callback.  A rejection of the download is rethrown by
\* ensureGoOboFile (lines 597-603) and ends loadGoGraph (line 665), so the
\* step that rejects the download also rejects the load.
\* ------------------------------------------------------------------------
\* (the locals of a settled download, redirects and body, are dropped)
Reject(k) ==
  [loads EXCEPT ![k].pc = "end", ![k].inner = "rejected",
                ![k].redirects = 0, ![k].body = "none",
                ![k].dl = IF loads[k].dl = "pending" THEN "failed"
                          ELSE loads[k].dl]

\* ensureGoOboFile (lines 585-596): the first isReadableFile answers
LoadAccess(k) ==
  /\ loads[k].pc = "access"
  /\ IF destFile # "absent"
     THEN loads' = [loads EXCEPT ![k].pc = "parse"]
     ELSE IF ~autoDownload
     THEN loads' = Reject(k)
     ELSE loads' = [loads EXCEPT ![k].pc = "request", ![k].dl = "pending",
                                 ![k].redirects = DefaultMaxRedirects]
  /\ UNCHANGED <<graphPromise, destFile, tempFile, autoDownload, calls>>
  /\ UNCHANGED <<parseVars, jobVars, queryVars>>

\* request.on("error") (lines 578-581): unlink the temporary file, reject.
\* The request may fail before a response or while the body is streaming.
RequestError(k) ==
  /\ loads[k].pc \in {"request", "body"}
  /\ tempFile' = "absent"
  /\ loads' = Reject(k)
  /\ UNCHANGED <<graphPromise, destFile, autoDownload, calls>>
  /\ UNCHANGED <<parseVars, jobVars, queryVars>>

\* the redirect branch with maxRedirects < 0 for maxRedirects <= 0
MutResponseRedirect(k, hasLocation) ==
  /\ loads[k].pc = "request"
  /\ IF ~hasLocation THEN loads' = Reject(k)
     ELSE IF loads[k].redirects < 0 THEN loads' = Reject(k)
     ELSE loads' = [loads EXCEPT ![k].redirects = @ - 1]
  /\ UNCHANGED <<graphPromise, destFile, tempFile, autoDownload, calls>>
  /\ UNCHANGED <<parseVars, jobVars, queryVars>>

\* the response callback, a redirect status (lines 533-549)
ResponseRedirect(k, hasLocation) ==
  /\ loads[k].pc = "request"
  /\ IF ~hasLocation THEN loads' = Reject(k)
     ELSE IF loads[k].redirects <= 0 THEN loads' = Reject(k)
     ELSE loads' = [loads EXCEPT ![k].redirects = @ - 1]
  /\ UNCHANGED <<graphPromise, destFile, tempFile, autoDownload, calls>>
  /\ UNCHANGED <<parseVars, jobVars, queryVars>>

\* the response callback, a status that is neither a redirect nor 200
\* (lines 551-555)
ResponseBadStatus(k) ==
  /\ loads[k].pc = "request"
  /\ loads' = Reject(k)
  /\ UNCHANGED <<graphPromise, destFile, tempFile, autoDownload, calls>>
  /\ UNCHANGED <<parseVars, jobVars, queryVars>>

\* the response callback, status 200 (lines 557-558): the write stream
\* creates (or truncates) the temporary file and the body is piped into it
MutResponseOk(k, body) ==
  /\ loads[k].pc = "request"
  /\ destFile' = "partial"
  /\ loads' = [loads EXCEPT ![k].pc = "body", ![k].body = body]
  /\ UNCHANGED <<graphPromise, tempFile, autoDownload, calls>>
  /\ UNCHANGED <<parseVars, jobVars, queryVars>>

ResponseOk(k, body) ==
  /\ loads[k].pc = "request"
  /\ tempFile' = "partial"
  /\ loads' = [loads EXCEPT ![k].pc = "body", ![k].body = body]
  /\ UNCHANGED <<graphPromise, destFile, autoDownload, calls>>
  /\ UNCHANGED <<parseVars, jobVars, queryVars>>

\* the body ends: pipe() ends the write stream, "finish" fires once all of
\* it is written, the stream is closed and the rename is issued
\* (lines 560-563)
BodyFinish(k) ==
  /\ loads[k].pc = "body"
  /\ tempFile' = loads[k].body
  /\ loads' = [loads EXCEPT ![k].pc = "rename", ![k].redirects = 0,
                            ![k].body = "none"]
  /\ UNCHANGED <<graphPromise, destFile, autoDownload, calls>>
  /\ UNCHANGED <<parseVars, jobVars, queryVars>>

\* out.on("error") (lines 571-575): destroy the response, unlink, reject
WriteError(k) ==
  /\ loads[k].pc = "body"
  /\ tempFile' = "absent"
  /\ loads' = Reject(k)
  /\ UNCHANGED <<graphPromise, destFile, autoDownload, calls>>
  /\ UNCHANGED <<parseVars, jobVars, queryVars>>

\* the response is aborted mid-body without an error on the request: the
\* response emits no "end", pipe() never ends the write stream, and no
\* handler of lines 560-581 runs
BodyAborted(k) ==
  /\ loads[k].pc = "body"
  /\ loads' = [loads EXCEPT ![k].pc = "aborted"]
  /\ UNCHANGED <<graphPromise, destFile, tempFile, autoDownload, calls>>
  /\ UNCHANGED <<parseVars, jobVars, queryVars>>

\* fs.promises.rename (lines 562-567)
RenameDone(k, ok) ==
  /\ loads[k].pc = "rename"
  /\ IF ok
     THEN /\ destFile' = tempFile
          /\ tempFile' = "absent"
          /\ loads' = [loads EXCEPT ![k].pc = "recheck", ![k].dl = "ok"]
     ELSE /\ loads' = Reject(k)
          /\ UNCHANGED <<destFile, tempFile>>
  /\ UNCHANGED <<graphPromise, autoDownload, calls>>
  /\ UNCHANGED <<parseVars, jobVars, queryVars>>

\* ensureGoOboFile (lines 605-607): the second isReadableFile answers
LoadRecheck(k) ==
  /\ loads[k].pc = "recheck"
  /\ IF destFile # "absent"
     THEN loads' = [loads EXCEPT ![k].pc = "parse"]
     ELSE loads' = Reject(k)
  /\ UNCHANGED <<graphPromise, destFile, tempFile, autoDownload, calls>>
  /\ UNCHANGED <<parseVars, jobVars, queryVars>>

\* loadGoGraph (lines 667-740): the file is read and parsed; a file with
\* fewer than two nodes is rejected (line 724)
LoadParse(k) ==
  /\ loads[k].pc = "parse"
  /\ IF destFile \in {"good", "partial"}
     THEN loads' = [loads EXCEPT ![k].pc = "end", ![k].inner = "fulfilled"]
     ELSE loads' = Reject(k)
  /\ UNCHANGED <<graphPromise, destFile, tempFile, autoDownload, calls>>
  /\ UNCHANGED <<parseVars, jobVars, queryVars>>

\* the handler of .catch() (lines 1120-1123) runs in a later microtask than
\* the rejection of loadGoGraph; it resets the cache and rethrows
MutCatchHandler(k) ==
  /\ loads[k].inner = "rejected"
  /\ loads[k].outer = "pending"
  /\ loads' = [loads EXCEPT ![k].outer = "rejected"]
  /\ UNCHANGED <<graphPromise, destFile, tempFile, autoDownload, calls>>
  /\ UNCHANGED <<parseVars, jobVars, queryVars>>

CatchHandler(k) ==
  /\ loads[k].inner = "rejected"
  /\ loads[k].outer = "pending"
  /\ graphPromise' = NoPromise
  /\ loads' = [loads EXCEPT ![k].outer = "rejected"]
  /\ UNCHANGED <<destFile, tempFile, autoDownload, calls>>
  /\ UNCHANGED <<parseVars, jobVars, queryVars>>

\* a fulfilled loadGoGraph passes through .catch() unchanged
MutPassThrough(k) ==
  /\ loads[k].inner = "fulfilled"
  /\ loads[k].outer = "pending"
  /\ graphPromise' = NoPromise
  /\ loads' = [loads EXCEPT ![k].outer = "fulfilled"]
  /\ UNCHANGED <<destFile, tempFile, autoDownload, calls>>
  /\ UNCHANGED <<parseVars, jobVars, queryVars>>

PassThrough(k) ==
  /\ loads[k].inner = "fulfilled"
  /\ loads[k].outer = "pending"
  /\ loads' = [loads EXCEPT ![k].outer = "fulfilled"]
  /\ UNCHANGED <<graphPromise, destFile, tempFile, autoDownload, calls>>
  /\ UNCHANGED <<parseVars, jobVars, queryVars>>

\* ------------------------------------------------------------------------
\* runGoSimJob after the await of Promise.all (lines 1220-1264)
\* ------------------------------------------------------------------------
\* one fetchSpeciesGeneTerms settles.  A database error rejects Promise.all
\* at once and the await of line 1220 throws: the call ends (its settled
\* lookups are locals and are dropped with it).
FetchDone(c, which, ok) ==
  /\ calls[c].pc = "waiting"
  /\ IF which = "host" THEN calls[c].fetchH = "pending"
                       ELSE calls[c].fetchP = "pending"
  /\ IF ~ok
     THEN calls' = [calls EXCEPT ![c].pc = "failed",
                                 ![c].fetchH = "none", ![c].fetchP = "none",
                                 ![c].error = "500 lookup"]
     ELSE IF which = "host"
     THEN calls' = [calls EXCEPT ![c].fetchH = "ok"]
     ELSE calls' = [calls EXCEPT ![c].fetchP = "ok"]
  /\ UNCHANGED <<graphPromise, loads, destFile, tempFile, autoDownload>>
  /\ UNCHANGED <<parseVars, jobVars, queryVars>>

GraphState(c) == loads[calls[c].awaits].outer

\* the promise of getGoGraph is rejected: Promise.all rejects, the call
\* throws
JobFail(c) ==
  /\ calls[c].pc = "waiting"
  /\ GraphState(c) = "rejected"
  /\ calls' = [calls EXCEPT ![c].pc = "failed",
                            ![c].fetchH = "none", ![c].fetchP = "none",
                            ![c].error = "500 graph load"]
  /\ UNCHANGED <<graphPromise, loads, destFile, tempFile, autoDownload>>
  /\ UNCHANGED <<parseVars, jobVars, queryVars>>

\* Promise.all fulfils: the scoring loop runs and persistGoResults is called
\* with its list: the empty list (stored as one sentinel record, line 1187)
\* when a map is empty or no pair is kept, else the records.  The content
\* of the list is the subject of JobSpec below.
MutJobContinue(c) ==
  /\ calls[c].pc = "waiting"
  /\ GraphState(c) # "pending"
  /\ calls[c].fetchH = "ok" /\ calls[c].fetchP = "ok"
  /\ \E list \in {"sentinel", "records"} :
       calls' = [calls EXCEPT ![c].pc = "persisting", ![c].persist = list,
                              ![c].fetchH = "none", ![c].fetchP = "none",
                              ![c].graph = calls[c].awaits]
  /\ UNCHANGED <<graphPromise, loads, destFile, tempFile, autoDownload>>
  /\ UNCHANGED <<parseVars, jobVars, queryVars>>

JobContinue(c) ==
  /\ calls[c].pc = "waiting"
  /\ GraphState(c) = "fulfilled"
  /\ calls[c].fetchH = "ok" /\ calls[c].fetchP = "ok"
  /\ \E list \in {"sentinel", "records"} :
       calls' = [calls EXCEPT ![c].pc = "persisting", ![c].persist = list,
                              ![c].fetchH = "none", ![c].fetchP = "none",
                              ![c].graph = calls[c].awaits]
  /\ UNCHANGED <<graphPromise, loads, destFile, tempFile, autoDownload>>
  /\ UNCHANGED <<parseVars, jobVars, queryVars>>

\* persistGoResults (lines 1180-1190): the insert settles
PersistDone(c, ok) ==
  /\ calls[c].pc = "persisting"
  /\ calls' = [calls EXCEPT ![c].pc = IF ok THEN "done" ELSE "failed",
                            ![c].error = IF ok THEN "none" ELSE "500 insert"]
  /\ UNCHANGED <<graphPromise, loads, destFile, tempFile, autoDownload>>
  /\ UNCHANGED <<parseVars, jobVars, queryVars>>

Next ==
  \/ \E c \in CallIds : RunGoSimJob(c)
  \/ \E k \in LoadIds : LoadAccess(k)
  \/ \E k \in LoadIds : RequestError(k)
  \/ \E k \in LoadIds, hasLocation \in BOOLEAN : ResponseRedirect(k, hasLocation)
  \/ \E k \in LoadIds : ResponseBadStatus(k)
  \/ \E k \in LoadIds, body \in {"good", "small"} : ResponseOk(k, body)
  \/ \E k \in LoadIds : BodyFinish(k)
  \/ \E k \in LoadIds : WriteError(k)
  \/ \E k \in LoadIds : BodyAborted(k)
  \/ \E k \in LoadIds, ok \in BOOLEAN : RenameDone(k, ok)
  \/ \E k \in LoadIds : LoadRecheck(k)
  \/ \E k \in LoadIds : LoadParse(k)
  \/ \E k \in LoadIds : CatchHandler(k)
  \/ \E k \in LoadIds : PassThrough(k)
  \/ \E c \in CallIds, which \in {"host", "pathogen"}, ok \in BOOLEAN :
        FetchDone(c, which, ok)
  \/ \E c \in CallIds : JobFail(c)
  \/ \E c \in CallIds : JobContinue(c)
  \/ \E c \in CallIds, ok \in BOOLEAN : PersistDone(c, ok)

Spec == Init /\ [][Next]_vars

\* the event loop runs every callback that is ready, and the network and
\* the file system answer every operation that is outstanding
FairSpec == Spec /\ WF_vars(Next)

\* ------------------------------------------------------------------------
\* Properties of the loader and of the call (specification Spec)
\* ------------------------------------------------------------------------
Pending(k) == loads[k].outer = "pending"
Awaiting(c, k) == calls[c].awaits = k

\* C1: single flight.  At most one load is pending at any time; a pending
\* load is the one cached in graphPromise, so every call arriving meanwhile
\* is handed that same operation and starts nothing; every call waiting on
\* a pending load waits on the cached one.
C1_SingleFlight ==
  /\ Cardinality({k \in LoadIds : Pending(k)}) <= 1
  /\ \A k \in LoadIds : Pending(k) => graphPromise = k
  /\ \A c \in CallIds :
       calls[c].pc = "waiting" /\ Pending(calls[c].awaits)
         => calls[c].awaits = graphPromise

\* two calls wait on one load whose download is streaming
C1_Witness ==
  \E c1, c2 \in CallIds :
    /\ c1 # c2
    /\ calls[c1].pc = "waiting" /\ calls[c2].pc = "waiting"
    /\ calls[c1].awaits = calls[c2].awaits
    /\ loads[calls[c1].awaits].pc = "body"
    /\ Len(loads) = 1

\* C2: the graph is built at most once.  A load that succeeded is the last
\* load ever started and stays cached, and every call that obtained a graph
\* obtained the graph of that load.
C2_BuiltOnce ==
  \A k \in LoadIds :
    loads[k].inner = "fulfilled"
      => /\ k = Len(loads)
         /\ graphPromise = k
         /\ \A c \in CallIds : calls[c].graph \in {0, k}

\* a call has finished with the graph and another call uses the same graph
C2_Witness ==
  \E c1, c2 \in CallIds, k \in LoadIds :
    /\ c1 # c2
    /\ loads[k].outer = "fulfilled"
    /\ calls[c1].pc = "done" /\ calls[c1].graph = k
    /\ calls[c2].pc = "persisting" /\ calls[c2].graph = k

\* C3: a failed load is discarded.  The cache never holds a load whose
\* failure has been delivered (so the next call starts afresh); every
\* call awaiting the failed load fails or is about to; and the handler of a
\* failed load runs only while that load is still the cached one, so it
\* cannot clear a newer load.
C3_FailureDiscarded ==
  /\ \A k \in LoadIds : loads[k].outer = "rejected" => graphPromise # k
  /\ \A k \in LoadIds, c \in CallIds :
       loads[k].outer = "rejected" /\ Awaiting(c, k)
         => calls[c].pc \in {"waiting", "failed"}
  /\ \A k \in LoadIds :
       loads[k].inner = "rejected" /\ loads[k].outer = "pending"
         => graphPromise = k

\* the first load failed and its caller got the failure; a second call
\* started the second load
C3_Witness ==
  /\ Len(loads) = 2
  /\ loads[1].outer = "rejected"
  /\ graphPromise = 2
  /\ calls[1].pc = "failed" /\ calls[1].error = "500 graph load"
  /\ calls[2].pc = "waiting" /\ calls[2].awaits = 2

\* C4: download atomicity.  The destination never holds a partial body,
\* and as long as no download has succeeded a started download leaves
\* the destination as it was when the download began (absent).
C4_DownloadAtomic ==
  /\ destFile # "partial"
  /\ (\E k \in LoadIds : loads[k].dl # "none")
       /\ (\A k \in LoadIds : loads[k].dl # "ok")
     => destFile = "absent"

\* the rename failed after the whole body was written: the body is still
\* at the temporary path and nothing is at the destination
C4_Witness ==
  /\ \E k \in LoadIds : loads[k].dl = "failed" /\ loads[k].inner = "rejected"
  /\ tempFile = "good"
  /\ destFile = "absent"

\* C5: all or nothing.  A call whose graph load failed never calls
\* persistGoResults: it fails as a whole.
C5_AllOrNothing ==
  \A c \in CallIds :
    calls[c].awaits # 0 /\ loads[calls[c].awaits].outer = "rejected"
      => calls[c].persist = "none" /\ calls[c].pc \in {"waiting", "failed"}

\* a call failed on a graph that was too small, both lookups having
\* answered
C5_Witness ==
  \E c \in CallIds :
    /\ calls[c].pc = "failed" /\ calls[c].error = "500 graph load"
    /\ calls[c].persist = "none"
    /\ destFile = "small"

\* C6: validation precedes all work.  A call whose method or score name is
\* not recognised has failed with a 400 error without calling getGoGraph,
\* without issuing a lookup and without persisting.
Unrecognised(p) == GetMethodFn(p.method) = NULL \/ GetScoreFn(p.score) = NULL

C6_ValidationFirst ==
  \A c \in CallIds :
    calls[c].pc # "new" /\ Unrecognised(calls[c].payload)
      => /\ calls[c].pc = "failed"
         /\ calls[c].error \in {"400 Missing required fields",
                                "400 Unsupported GO method",
                                "400 Unsupported GO score strategy"}
         /\ calls[c].awaits = 0
         /\ calls[c].fetchH = "none" /\ calls[c].fetchP = "none"
         /\ calls[c].persist = "none"
         /\ calls[c].graph = 0

\* a call was refused for its score name although the graph was loaded
C6_Witness ==
  \E c \in CallIds :
    /\ calls[c].error = "400 Unsupported GO score strategy"
    /\ \E k \in LoadIds : loads[k].outer = "fulfilled"

\* ========================================================================
\* The OBO parser: parseTermBlock, flushBlock, loadGoGraph (lines 610-740)
\* ========================================================================
\* A line "key: value" of a stanza is the record [key, value], the value
\* being the list of the whitespace-separated tokens that stand before a
\* "!" comment.  The fields other than relationship are written with one
\* token (or none), which is what value.trim() and
\* value.split("!")[0].trim() then yield.

Line(k, v) == [key |-> k, value |-> v]
Field(k, text) == Line(k, IF text = "" THEN <<>> ELSE <<text>>)
Text(value) == IF value = <<>> THEN "" ELSE value[1]

NewTerm ==
  [id |-> "", name |-> "", namespace |-> "", obsolete |-> FALSE,
   altIds |-> <<>>, relationships |-> <<>>]

\* one iteration of the loop of parseTermBlock (lines 620-653)
ParseLine(term, line) ==
  IF line.key = "id" THEN [term EXCEPT !.id = Text(line.value)]
  ELSE IF line.key = "name" THEN [term EXCEPT !.name = Text(line.value)]
  ELSE IF line.key = "namespace"
       THEN [term EXCEPT !.namespace = Text(line.value)]
  ELSE IF line.key = "is_obsolete"
       THEN [term EXCEPT !.obsolete = (Text(line.value) = "true")]
  ELSE IF line.key = "alt_id"
       THEN [term EXCEPT !.altIds = Append(@, Text(line.value))]
  ELSE IF line.key = "is_a"
       THEN IF Text(line.value) # ""
            THEN [term EXCEPT !.relationships =
                    Append(@, [type |-> "is_a", id |-> Text(line.value)])]
            ELSE term
  ELSE IF line.key = "relationship"
       THEN IF Len(line.value) >= 2
            THEN [term EXCEPT !.relationships =
                    Append(@, [type |-> line.value[1], id |-> line.value[2]])]
            ELSE term
  ELSE term

RECURSIVE ParseLines(_, _)
ParseLines(term, lines) ==
  IF lines = <<>> THEN term
  ELSE ParseLines(ParseLine(term, Head(lines)), Tail(lines))

\* parseTermBlock without its test of term.obsolete (lines 658-660)
MutParseTermBlock(lines) ==
  LET term == ParseLines(NewTerm, lines)
  IN  IF term.id = "" \/ term.name = "" \/ term.namespace = ""
      THEN NewTerm
      ELSE term

\* parseTermBlock (lines 610-662).  The null it returns for a discarded
\* term is NewTerm: a returned term has an id, NewTerm has none.

ParseTermBlock(lines) ==
  LET term == ParseLines(NewTerm, lines)
  IN  IF term.id = "" \/ term.name = "" \/ term.namespace = ""
      THEN NewTerm
      ELSE IF term.obsolete THEN NewTerm
      ELSE term

\* a Map is a function on its keys; <<>> is the empty Map
HasKey(map, key) == key \in DOMAIN map

MapSet(map, key, value) ==
  [k \in DOMAIN map \cup {key} |-> IF k = key THEN value ELSE map[k]]

\* ensureNode (lines 502-507), the Map it leaves
EnsureNode(map, key) ==
  IF ~HasKey(map, key) THEN MapSet(map, key, <<>>) ELSE map

SeqHas(seq, x) == \E i \in 1..Len(seq) : seq[i] = x

\* addUniqueEdge (lines 509-513), the list it leaves
AddUniqueEdge(list, edge) ==
  IF ~(\E i \in 1..Len(list) :
         list[i].id = edge.id /\ list[i].type = edge.type)
  THEN Append(list, edge) ELSE list

EmptyGraph ==
  [nodes |-> {}, parents |-> <<>>, children |-> <<>>, altIds |-> <<>>]

\* one iteration of the loop over term.relationships (lines 695-703)
MutAddRelationship(G, termId, rel) ==
  LET par == G.parents
      chi == EnsureNode(G.children, rel.id)
      par2 == EnsureNode(par, termId)
  IN  [G EXCEPT
         !.nodes = @ \cup {rel.id},
         !.parents = MapSet(par2, termId,
                       AddUniqueEdge(par2[termId],
                                     [id |-> rel.id, type |-> rel.type])),
         !.children = IF ~SeqHas(chi[rel.id], termId)
                      THEN MapSet(chi, rel.id, Append(chi[rel.id], termId))
                      ELSE chi]

\* one relationship that is entered in parents only
MutAddParentOnly(G, termId, rel) ==
  LET par == EnsureNode(G.parents, rel.id)
      par2 == EnsureNode(par, termId)
  IN  [G EXCEPT
         !.nodes = @ \cup {rel.id},
         !.parents = MapSet(par2, termId,
                       AddUniqueEdge(par2[termId],
                                     [id |-> rel.id, type |-> rel.type])),
         !.children = EnsureNode(@, rel.id)]

AddRelationship(G, termId, rel) ==
  LET par == EnsureNode(G.parents, rel.id)
      chi == EnsureNode(G.children, rel.id)
      par2 == EnsureNode(par, termId)
  IN  [G EXCEPT
         !.nodes = @ \cup {rel.id},
         !.parents = MapSet(par2, termId,
                       AddUniqueEdge(par2[termId],
                                     [id |-> rel.id, type |-> rel.type])),
         !.children = IF ~SeqHas(chi[rel.id], termId)
                      THEN MapSet(chi, rel.id, Append(chi[rel.id], termId))
                      ELSE chi]

RECURSIVE AddRelationships(_, _, _)
AddRelationships(G, termId, rels) ==
  IF rels = <<>> THEN G
  ELSE AddRelationships(AddRelationship(G, termId, Head(rels)), termId,
                        Tail(rels))

RECURSIVE SetAltIds(_, _, _)
SetAltIds(map, alts, termId) ==
  IF alts = <<>> THEN map
  ELSE SetAltIds(MapSet(map, Head(alts), termId), Tail(alts), termId)

\* flushBlock (lines 678-704) on the graph under construction
FlushBlockOn(G, tag, lines) ==
  IF tag # "Term" THEN G
  ELSE LET term == ParseTermBlock(lines)
       IN  IF term = NewTerm THEN G
           ELSE AddRelationships(
                  [G EXCEPT !.nodes = @ \cup {term.id},
                            !.parents = EnsureNode(@, term.id),
                            !.children = EnsureNode(@, term.id),
                            !.altIds = SetAltIds(@, term.altIds, term.id)],
                  term.id, term.relationships)

\* ------------------------------------------------------------------------
\* The stanzas a file may hold
\* ------------------------------------------------------------------------
\* the ids of the terms, the relationship lines a term may have and
\* relationship lines that name no target
StanzaLines ==
  [ids |-> {"GO:1", "GO:2", "GO:3"},
   rels |->
     {Field("is_a", t) : t \in {"GO:1", "GO:2"}}
       \cup {Line("relationship", <<"part_of", t>>) : t \in {"GO:1", "GO:4"}},
   bad |-> {Line("relationship", <<"part_of">>), Field("is_a", "")}]

Header(id) ==
  <<Field("id", id), Field("name", "n"), Field("namespace", "bp")>>

\* complete terms with no, one or two relationship lines and at most one
\* alt_id; terms that are discarded; a stanza that is no Term
TermBlocks ==
  {Header(id) : id \in StanzaLines.ids}
    \cup {Header(id) \o <<r>> :
            id \in StanzaLines.ids,
            r \in StanzaLines.rels \cup StanzaLines.bad}
    \cup {Header("GO:3") \o <<r1, r2>> :
            r1 \in StanzaLines.rels, r2 \in StanzaLines.rels}
    \cup {Header(id) \o <<Field("alt_id", a)>> :
            id \in {"GO:1", "GO:2"}, a \in {"GO:3", "GO:9"}}
    \cup {Header("GO:3") \o <<Field("alt_id", "GO:9"), Field("is_a", "GO:1")>>}

DiscardedBlocks ==
  { <<Field("name", "n"), Field("namespace", "bp"), Field("is_a", "GO:1")>>,
    <<Field("id", "GO:2"), Field("namespace", "bp"), Field("is_a", "GO:3")>>,
    <<Field("id", "GO:2"), Field("name", "n"), Field("alt_id", "GO:9")>>,
    Header("GO:3") \o <<Field("is_obsolete", "true"), Field("alt_id", "GO:9"),
                        Field("is_a", "GO:4")>> }

Stanzas ==
  {[tag |-> "Term", lines |-> b] : b \in TermBlocks \cup DiscardedBlocks}
    \cup {[tag |-> "Typedef",
           lines |-> Header("GO:1") \o <<Field("is_a", "GO:2")>>]}

\* ------------------------------------------------------------------------
\* loadGoGraph as a reader of stanzas (specification LoadSpec)
\* ------------------------------------------------------------------------
\* number of stanzas in the file
MaxStanzas == 3

ProcIdle ==
  /\ graphPromise = NoPromise /\ loads = <<>> /\ destFile = "absent"
  /\ tempFile = "absent" /\ autoDownload = FALSE
  /\ calls = [c \in CallIds |-> NewCall]

LoadInit ==
  /\ nodes = {} /\ parents = <<>> /\ children = <<>> /\ altIds = <<>>
  /\ blockType = NULL /\ blockLines = <<>> /\ flushed = 0
  /\ referenced = {}
  /\ loadResult = "reading"
  /\ ProcIdle
  /\ JobIdle
  /\ QueryIdle

\* the ids an accepted term refers to
RefIds(tag, lines) ==
  LET term == ParseLines(NewTerm, lines)
  IN  IF tag # "Term" \/ "" \in {term.id, term.name, term.namespace}
         \/ term.obsolete
      THEN {}
      ELSE {term.id}
             \cup {term.relationships[i].id :
                     i \in 1..Len(term.relationships)}

\* a stanza has been read up to the next header (or the end of the file)
\* and is flushed (lines 711-716, 722)
FlushBlock(st) ==
  /\ loadResult = "reading"
  /\ flushed < MaxStanzas
  /\ LET G == FlushBlockOn([nodes |-> nodes, parents |-> parents,
                            children |-> children, altIds |-> altIds],
                           st.tag, st.lines)
     IN  /\ nodes' = G.nodes
         /\ parents' = G.parents
         /\ children' = G.children
         /\ altIds' = G.altIds
  /\ blockType' = st.tag
  /\ blockLines' = st.lines
  /\ flushed' = flushed + 1
  /\ referenced' = referenced \cup RefIds(st.tag, st.lines)
  /\ UNCHANGED loadResult
  /\ UNCHANGED <<procVars, jobVars, queryVars>>

\* the end of the file: the size test (lines 724-740)
LoadFinish ==
  /\ loadResult = "reading"
  /\ loadResult' = IF Cardinality(nodes) < 2 THEN "too small" ELSE "graph"
  /\ UNCHANGED <<nodes, parents, children, altIds, blockType, blockLines,
                 flushed, referenced>>
  /\ UNCHANGED <<procVars, jobVars, queryVars>>

LoadNext ==
  \/ \E st \in Stanzas : FlushBlock(st)
  \/ LoadFinish

LoadSpec == LoadInit /\ [][LoadNext]_vars

C11_DiscardedAddsNothing ==
  [][ (/\ flushed' = flushed + 1
       /\ blockType' = "Term"
       /\ LET term == ParseLines(NewTerm, blockLines')
          IN  "" \in {term.id, term.name, term.namespace} \/ term.obsolete)
      => UNCHANGED <<nodes, parents, children, altIds>> ]_vars

\* an obsolete term with an alt_id and a relationship was flushed after
\* accepted terms, and neither its id nor the other ids it names are in the
\* graph
C11_Witness ==
  /\ blockType = "Term"
  /\ ParseLines(NewTerm, blockLines).obsolete
  /\ ParseLines(NewTerm, blockLines).altIds # <<>>
  /\ ParseLines(NewTerm, blockLines).relationships # <<>>
  /\ flushed = MaxStanzas
  /\ Cardinality(nodes) >= 2
  /\ ParseLines(NewTerm, blockLines).id \notin nodes
  /\ altIds = <<>>

\* C11 as it is worded, for the stanza flushed last: when that stanza is
\* discarded its id is no node, none of its alt_ids is a key of altIds and
\* none of its relationships is an edge of its id.
C11_DiscardedIdAbsent ==
  LET term == ParseLines(NewTerm, blockLines)
  IN  (/\ blockType = "Term" /\ flushed > 0
       /\ ("" \in {term.id, term.name, term.namespace} \/ term.obsolete))
      => /\ term.id \notin nodes
         /\ \A i \in 1..Len(term.altIds) : ~HasKey(altIds, term.altIds[i])
         /\ \A i \in 1..Len(term.relationships) :
              HasKey(parents, term.id)
                => ~SeqHas(parents[term.id], term.relationships[i])

\* ========================================================================
\* Queries on a loaded graph (lines 742-858), computed as the code computes
\* them on a graph whose caches are empty.  Sets are kept as lists in
\* insertion order, the order in which JavaScript iterates a Set.
\* ========================================================================
\* a number or null: [k |-> "num", v |-> n], [k |-> "null"]; NaN for the
\* result of arithmetic on what is no number
Null == [k |-> "null"]
NaN == [k |-> "NaN"]
Num(n) == [k |-> "num", v |-> n]
IsNum(x) == x.k = "num"

\* the graph loadGoGraph returns (lines 728-739): its caches are empty
Graph(G) ==
  [nodes |-> G.nodes, parents |-> G.parents, children |-> G.children,
   altIds |-> G.altIds, totalNodes |-> Cardinality(G.nodes),
   ancestorCache |-> <<>>, descendantCache |-> <<>>,
   lowerBoundCache |-> <<>>, sValueCache |-> <<>>, pathCache |-> <<>>]

\* map.get(key) || []
MapGet(map, key) == IF HasKey(map, key) THEN map[key] ELSE <<>>

\* resolveTerm that does not look the canonical id up in the nodes
MutResolveTerm(g, term) ==
  IF term = "" THEN ""
  ELSE IF HasKey(g.altIds, term) /\ g.altIds[term] # "" THEN g.altIds[term]
  ELSE term

\* resolveTerm (lines 742-749); a term id is written without white space
ResolveTerm(g, term) ==
  IF term = "" THEN ""
  ELSE LET canonical == IF HasKey(g.altIds, term) /\ g.altIds[term] # ""
                        THEN g.altIds[term] ELSE term
       IN  IF canonical \in g.nodes THEN canonical ELSE ""

\* the ids pushed for a node: its parents (lines 761, 768-770) or its
\* children (lines 787, 794-796)
Adjacent(g, up, n) ==
  IF up
  THEN [i \in 1..Len(MapGet(g.parents, n)) |-> MapGet(g.parents, n)[i].id]
  ELSE MapGet(g.children, n)

\* the loop of getAncestors / getDescendants (lines 762-771, 788-797)
RECURSIVE Traverse(_, _, _, _)
Traverse(g, up, stack, visited) ==
  IF stack = <<>> THEN visited
  ELSE LET current == stack[Len(stack)]
           rest == SubSeq(stack, 1, Len(stack) - 1)
       IN  IF current = "" \/ SeqHas(visited, current)
           THEN Traverse(g, up, rest, visited)
           ELSE Traverse(g, up, rest \o Adjacent(g, up, current),
                         Append(visited, current))

\* getAncestors (lines 751-775)
GetAncestors(g, term) ==
  LET canonical == ResolveTerm(g, term)
  IN  IF canonical = "" THEN <<>>
      ELSE IF HasKey(g.ancestorCache, canonical)
      THEN g.ancestorCache[canonical]
      ELSE Traverse(g, TRUE, Adjacent(g, TRUE, canonical), <<>>)

\* getDescendants (lines 777-801)
GetDescendants(g, term) ==
  LET canonical == ResolveTerm(g, term)
  IN  IF canonical = "" THEN <<>>
      ELSE IF HasKey(g.descendantCache, canonical)
      THEN g.descendantCache[canonical]
      ELSE Traverse(g, FALSE, Adjacent(g, FALSE, canonical), <<>>)

\* lowerBound that does not count the term itself
MutLowerBound(g, term) ==
  IF ResolveTerm(g, term) = "" THEN Null
  ELSE IF HasKey(g.lowerBoundCache, ResolveTerm(g, term))
  THEN g.lowerBoundCache[ResolveTerm(g, term)]
  ELSE Num(Len(GetDescendants(g, ResolveTerm(g, term))))

\* lowerBound (lines 803-814)
LowerBound(g, term) ==
  IF ResolveTerm(g, term) = "" THEN Null
  ELSE IF HasKey(g.lowerBoundCache, ResolveTerm(g, term))
  THEN g.lowerBoundCache[ResolveTerm(g, term)]
  ELSE Num(Len(GetDescendants(g, ResolveTerm(g, term))) + 1)

\* round3(-1 * Math.log2(lb / totalNodes)) in thousandths, for
\* 1 <= lb <= totalNodes + 1 <= 8: ICTable[totalNodes][lb]
ICTable ==
  << <<0, -1000>>,
     <<1000, 0, -585>>,
     <<1585, 585, 0, -415>>,
     <<2000, 1000, 415, 0, -322>>,
     <<2322, 1322, 737, 322, 0, -263>>,
     <<2585, 1585, 1000, 585, 263, 0, -222>>,
     <<2807, 1807, 1222, 807, 485, 222, 0, -193>> >>

\* lines 818-822 of informationContent, lb being the lowerBound
IcOfLb(g, lb) ==
  IF lb = Null \/ lb.v = 0 \/ g.totalNodes <= 0 THEN Null
  ELSE Num(ICTable[g.totalNodes][lb.v])

\* informationContent (lines 816-823)
InformationContent(g, term) == IcOfLb(g, LowerBound(g, term))

\* stands for Number.MAX_SAFE_INTEGER: above every lowerBound
MaxSafeInteger == 2147483647

\* lowerBound(graph, term) || default
LbOr(g, term, default) ==
  LET OrElse(lb) == IF lb = Null \/ lb.v = 0 THEN default ELSE lb.v
  IN  OrElse(LowerBound(g, term))

\* the loop with <= for <: the last candidate of the least lowerBound
RECURSIVE MutPickLowest(_, _, _, _)
MutPickLowest(g, common, best, bestLb) ==
  IF common = <<>> THEN best
  ELSE IF LbOr(g, Head(common), MaxSafeInteger) <= bestLb
  THEN MutPickLowest(g, Tail(common), Head(common),
                     LbOr(g, Head(common), MaxSafeInteger))
  ELSE MutPickLowest(g, Tail(common), best, bestLb)

\* the loop of lowestCommonAncestor (lines 849-856): the first candidate of
\* the least lowerBound
RECURSIVE PickLowest(_, _, _, _)
PickLowest(g, common, best, bestLb) ==
  IF common = <<>> THEN best
  ELSE IF LbOr(g, Head(common), MaxSafeInteger) < bestLb
  THEN PickLowest(g, Tail(common), Head(common),
                  LbOr(g, Head(common), MaxSafeInteger))
  ELSE PickLowest(g, Tail(common), best, bestLb)

\* the list common without the test of a2.has(t1) (lines 837-839)
MutCommon(a1, a2, t1, t2) ==
  (IF SeqHas(a1, t2) THEN <<t2>> ELSE <<>>)
    \o SelectSeq(a1, LAMBDA x : SeqHas(a2, x))
    \o (IF t1 = t2 THEN <<t1>> ELSE <<>>)

\* the list common (lines 833-843), a1 and a2 being the ancestor sets
Common(a1, a2, t1, t2) ==
  (IF SeqHas(a1, t2) THEN <<t2>> ELSE <<>>)
    \o (IF SeqHas(a2, t1) THEN <<t1>> ELSE <<>>)
    \o SelectSeq(a1, LAMBDA x : SeqHas(a2, x))
    \o (IF t1 = t2 THEN <<t1>> ELSE <<>>)

\* lines 844-857 of lowestCommonAncestor: a term id, or NULL
BestOf(g, common) ==
  IF common = <<>> THEN NULL
  ELSE PickLowest(g, Tail(common), Head(common),
                  LbOr(g, Head(common), MaxSafeInteger))

\* lowestCommonAncestor (lines 825-858)
LowestCommonAncestor(g, term1, term2) ==
  LET t1 == ResolveTerm(g, term1)
      t2 == ResolveTerm(g, term2)
  IN  IF t1 = "" \/ t2 = "" THEN NULL
      ELSE BestOf(g, Common(GetAncestors(g, t1), GetAncestors(g, t2),
                            t1, t2))

\* round3(p / q) in thousandths, p and q integers, q # 0; toFixed rounds
\* the magnitude to the nearest thousandth, a half upwards
Round3Ratio(p, q) ==
  LET neg == (p < 0) # (q < 0)
      ap == IF p < 0 THEN -p ELSE p
      aq == IF q < 0 THEN -q ELSE q
      m == (2000 * ap + aq) \div (2 * aq)
  IN  IF neg THEN -m ELSE m

\* lines 862-865 of resnik, mica being the lowest common ancestor
IcOfMica(g, mica) ==
  IF mica = NULL THEN Null ELSE InformationContent(g, mica)

\* resnik (lines 860-866)
Resnik(g, term1, term2) ==
  IcOfMica(g, LowestCommonAncestor(g, term1, term2))

\* lines 872-879 of lin
LinOf(ic1, ic2, icLca) ==
  IF ic1 = Null \/ ic2 = Null \/ icLca = Null THEN Null
  ELSE IF ic1.v + ic2.v = 0 THEN Null
  ELSE Num(Round3Ratio(2 * icLca.v, ic1.v + ic2.v))

\* lin (lines 868-880)
Lin(g, term1, term2) ==
  LinOf(InformationContent(g, term1), InformationContent(g, term2),
        Resnik(g, term1, term2))

\* the graph of three stanzas: GO:2 is_a GO:1 and GO:3 is_a GO:1
RECURSIVE LoadStanzas(_, _)
LoadStanzas(G, stanzas) ==
  IF stanzas = <<>> THEN G
  ELSE LoadStanzas(FlushBlockOn(G, Head(stanzas).tag, Head(stanzas).lines),
                   Tail(stanzas))

FixtureGraph ==
  Graph(LoadStanzas(EmptyGraph,
    << [tag |-> "Term", lines |-> Header("GO:1")],
       [tag |-> "Term",
        lines |-> Header("GO:2") \o <<Field("is_a", "GO:1")>>],
       [tag |-> "Term",
        lines |-> Header("GO:3") \o <<Field("is_a", "GO:1")>>] >>))

\* ------------------------------------------------------------------------
\* wang (lines 882-955).  An S-value before rounding is kept in millionths
\* (1 is 1000000): a product of up to six weights 0.8 and 0.6 is a whole
\* number of them.
\* ------------------------------------------------------------------------
\* WANG_WEIGHTS[rel.type] || 0, in tenths (lines 482-485, 900)
WangWeight(type) ==
  IF type = "is_a" THEN 8 ELSE IF type = "part_of" THEN 6 ELSE 0

\* the body of the loop over the parents of one node (lines 898-915):
\* acc is [sv, nextLevel]
RECURSIVE SvParents(_, _, _, _)
SvParents(acc, node, rels, visited) ==
  IF rels = <<>> THEN acc
  ELSE LET rel == Head(rels)
           parent == rel.id
           wf == WangWeight(rel.type)
           weight == ((IF HasKey(acc.sv, node) THEN acc.sv[node] ELSE 0) * wf)
                       \div 10
           sv2 == IF ~HasKey(acc.sv, parent) \/ weight > acc.sv[parent]
                  THEN MapSet(acc.sv, parent, weight) ELSE acc.sv
           next2 == IF ~SeqHas(visited, parent)
                       /\ ~SeqHas(acc.nextLevel, parent)
                    THEN Append(acc.nextLevel, parent) ELSE acc.nextLevel
       IN  IF wf <= 0 \/ weight <= 0
           THEN SvParents(acc, node, Tail(rels), visited)
           ELSE SvParents([sv |-> sv2, nextLevel |-> next2], node,
                          Tail(rels), visited)

\* the loop over the nodes of one level (lines 897-916)
RECURSIVE SvLevel(_, _, _, _)
SvLevel(g, acc, level, visited) ==
  IF level = <<>> THEN acc
  ELSE SvLevel(g,
               SvParents(acc, Head(level), MapGet(g.parents, Head(level)),
                         visited),
               Tail(level), visited)

\* the set a list is added to (lines 917-919)
RECURSIVE AddAll(_, _)
AddAll(set, list) ==
  IF list = <<>> THEN set
  ELSE AddAll(IF SeqHas(set, Head(list)) THEN set
              ELSE Append(set, Head(list)), Tail(list))

\* the while loop of sValues (lines 895-921)
RECURSIVE SvLoop(_, _, _, _)
SvLoop(g, sv, level, visited) ==
  IF level = <<>> THEN sv
  ELSE LET acc == SvLevel(g, [sv |-> sv, nextLevel |-> <<>>], level, visited)
       IN  SvLoop(g, acc.sv, acc.nextLevel, AddAll(visited, level))

\* the Map rounded (lines 923-926): millionths to thousandths, to the
\* nearest
Rounded(sv) == [k \in DOMAIN sv |-> (sv[k] + 500) \div 1000]

\* sValues (lines 882-929) of a term that resolves: a Map from term ids to
\* thousandths.  (Of a term that does not, sValues is null: see Wang.)
SValues(g, term) ==
  IF HasKey(g.sValueCache, ResolveTerm(g, term))
  THEN g.sValueCache[ResolveTerm(g, term)]
  ELSE Rounded(SvLoop(g, MapSet(<<>>, ResolveTerm(g, term), 1000000),
                      <<ResolveTerm(g, term)>>, <<>>))

RECURSIVE SumValues(_, _)
SumValues(map, keys) ==
  IF keys = {} THEN 0
  ELSE LET k == CHOOSE x \in keys : TRUE
       IN  map[k] + SumValues(map, keys \ {k})

\* lines 937-954 of wang
WangOf(sa, sb) ==
  IF SumValues(sa, DOMAIN sa) + SumValues(sb, DOMAIN sb) <= 0 THEN Null
  ELSE Num(Round3Ratio(SumValues(sa, DOMAIN sa \cap DOMAIN sb)
                         + SumValues(sb, DOMAIN sa \cap DOMAIN sb),
                       SumValues(sa, DOMAIN sa) + SumValues(sb, DOMAIN sb)))

\* wang (lines 931-955)
Wang(g, term1, term2) ==
  IF ResolveTerm(g, term1) = "" \/ ResolveTerm(g, term2) = "" THEN Null
  ELSE WangOf(SValues(g, term1), SValues(g, term2))

\* ------------------------------------------------------------------------
\* pekar (lines 957-1028)
\* ------------------------------------------------------------------------
\* the loop over the children of queue[i] (lines 977-986):
\* acc is [queue, visited, result]
RECURSIVE SplChildren(_, _, _, _)
SplChildren(acc, kids, dist, dst) ==
  IF kids = <<>> THEN acc
  ELSE IF Head(kids) = dst THEN [acc EXCEPT !.result = Num(dist + 1)]
  ELSE IF ~SeqHas(acc.visited, Head(kids))
  THEN SplChildren(
         [acc EXCEPT !.visited = Append(@, Head(kids)),
                     !.queue = Append(@, [node |-> Head(kids),
                                          dist |-> dist + 1])],
         Tail(kids), dist, dst)
  ELSE SplChildren(acc, Tail(kids), dist, dst)

\* the loop over the queue (lines 975-990)
RECURSIVE SplLoop(_, _, _, _)
SplLoop(g, acc, i, dst) ==
  IF i > Len(acc.queue) THEN acc.result
  ELSE LET acc2 == SplChildren(acc, MapGet(g.children, acc.queue[i].node),
                               acc.queue[i].dist, dst)
       IN  IF acc2.result # Null THEN acc2.result
           ELSE SplLoop(g, acc2, i + 1, dst)

\* shortestPathLength without the test for equal ends
MutShortestPathLength(g, source, target) ==
  LET src == ResolveTerm(g, source)
      dst == ResolveTerm(g, target)
  IN  IF src = "" \/ dst = "" THEN Null
      ELSE IF HasKey(g.pathCache, <<src, dst>>) THEN g.pathCache[<<src, dst>>]
      ELSE SplLoop(g, [queue |-> <<[node |-> src, dist |-> 0]>>,
                       visited |-> <<src>>, result |-> Null], 1, dst)

\* shortestPathLength (lines 957-994): edges from parent to child
ShortestPathLength(g, source, target) ==
  LET src == ResolveTerm(g, source)
      dst == ResolveTerm(g, target)
  IN  IF src = "" \/ dst = "" THEN Null
      ELSE IF src = dst THEN Num(0)
      ELSE IF HasKey(g.pathCache, <<src, dst>>) THEN g.pathCache[<<src, dst>>]
      ELSE SplLoop(g, [queue |-> <<[node |-> src, dist |-> 0]>>,
                       visited |-> <<src>>, result |-> Null], 1, dst)

\* the loop that picks the root (lines 1011-1017): the first ancestor of
\* the greatest lowerBound
RECURSIVE PickRoot(_, _, _, _)
PickRoot(g, ancestors, root, rootLb) ==
  IF ancestors = <<>> THEN root
  ELSE IF LbOr(g, Head(ancestors), 0) > rootLb
  THEN PickRoot(g, Tail(ancestors), Head(ancestors),
                LbOr(g, Head(ancestors), 0))
  ELSE PickRoot(g, Tail(ancestors), root, rootLb)

\* lines 1004-1027 of pekar
PekarRatio(ac, bc, rootc) ==
  IF ac = Null \/ bc = Null THEN Null
  ELSE IF rootc = Null THEN Null
  ELSE IF ac.v + bc.v + rootc.v = 0 THEN Null
  ELSE Num(Round3Ratio(rootc.v, ac.v + bc.v + rootc.v))

\* lines 998-1027 of pekar, mica being the lowest common ancestor
PekarOf(g, mica, term1, term2) ==
  IF mica = NULL THEN Null
  ELSE PekarRatio(
         ShortestPathLength(g, mica, term1),
         ShortestPathLength(g, mica, term2),
         ShortestPathLength(
           g, PickRoot(g, GetAncestors(g, mica), mica, LbOr(g, mica, 0)),
           mica))

\* pekar (lines 996-1028)
Pekar(g, term1, term2) ==
  PekarOf(g, LowestCommonAncestor(g, term1, term2), term1, term2)

\* ========================================================================
\* The aggregators of getScoreFn (lines 1042-1114) and the scoring part of
\* runGoSimJob (lines 1192-1264)
\* ========================================================================
\* what Object(graph, t1, t2) returns: its first argument, which is neither
\* null nor a number
Obj == [k |-> "object"]
TypeError == [k |-> "TypeError"]

\* simMethod(graph, t1, t2) for the functions getMethodFn can return
SimMethod(fn, g, t1, t2) ==
  IF fn = "wang" THEN Wang(g, t1, t2)
  ELSE IF fn = "resnik" THEN Resnik(g, t1, t2)
  ELSE IF fn = "lin" THEN Lin(g, t1, t2)
  ELSE IF fn = "pekar" THEN Pekar(g, t1, t2)
  ELSE Obj

\* "Object.prototype" is an object, not a function: calling it throws
Callable(fn) == fn # "Object.prototype"

\* The aggregators below take, for simMethod and graph, the table of the
\* values simMethod(graph, t1, t2) returns: sim[i][j] for t1 = terms1[i]
\* and t2 = terms2[j].
SimTable(fn, g, terms1, terms2) ==
  [i \in 1..Len(terms1) |->
     [j \in 1..Len(terms2) |-> SimMethod(fn, g, terms1[i], terms2[j])]]

\* if (sim !== null && sim !== undefined) row.push(sim)
NotNull(row) == SelectSeq(row, LAMBDA sim : sim # Null)

\* the list sims of simMax and simAvg (lines 1046-1054), rows 1..n of sim
RECURSIVE SimsOf(_, _)
SimsOf(sim, n) ==
  IF n = 0 THEN <<>> ELSE SimsOf(sim, n - 1) \o NotNull(sim[n])

AllNum(sims) == \A i \in 1..Len(sims) : IsNum(sims[i])

\* Math.max(...sims), sims not empty: NaN when a member is no number
MathMax(sims) ==
  IF ~AllNum(sims) THEN NaN
  ELSE Num(CHOOSE m \in {sims[i].v : i \in 1..Len(sims)} :
             \A i \in 1..Len(sims) : sims[i].v <= m)

\* sims.reduce((acc, value) => acc + value, 0): with a member that is no
\* number the sum is a string or NaN, and the quotient is NaN
RECURSIVE Sum(_)
Sum(sims) == IF sims = <<>> THEN 0 ELSE Head(sims).v + Sum(Tail(sims))

\* round3(sum / n), sum in thousandths; a quotient half way between two
\* thousandths is rounded away from zero here
Round3Mean(sum, n) ==
  LET a == IF sum < 0 THEN -sum ELSE sum
      m == (2 * a + n) \div (2 * n)
  IN  IF sum < 0 THEN -m ELSE m

Mean(sims) ==
  IF ~AllNum(sims) THEN NaN ELSE Num(Round3Mean(Sum(sims), Len(sims)))

\* simMax (lines 1045-1059)
SimMax(terms1, terms2, sim) ==
  LET sims == SimsOf(sim, Len(terms1))
  IN  IF sims = <<>> THEN Null ELSE MathMax(sims)

\* simAvg (lines 1062-1077)
SimAvg(terms1, terms2, sim) ==
  LET sims == SimsOf(sim, Len(terms1))
  IN  IF sims = <<>> THEN Null ELSE Mean(sims)

\* the maxima of the rows that are not empty (lines 1090-1092, 1102-1104)
RowMaxima(rows) ==
  LET kept == SelectSeq(rows, LAMBDA row : row # <<>>)
  IN  [i \in 1..Len(kept) |-> MathMax(kept[i])]

\* simBma (lines 1080-1111): a row for every t1, then one for every t2
SimBma(terms1, terms2, sim) ==
  LET byT1 == [i \in 1..Len(terms1) |-> NotNull(sim[i])]
      byT2 == [j \in 1..Len(terms2) |->
                 NotNull([i \in 1..Len(terms1) |-> sim[i][j]])]
      sims == RowMaxima(byT1) \o RowMaxima(byT2)
  IN  IF sims = <<>> THEN Null ELSE Mean(sims)

\* the aggregator getScoreFn returned, applied
Aggregate(scoreFn, terms1, terms2, sim) ==
  IF scoreFn = "simMax" THEN SimMax(terms1, terms2, sim)
  ELSE IF scoreFn = "simAvg" THEN SimAvg(terms1, terms2, sim)
  ELSE SimBma(terms1, terms2, sim)

\* scoreFn(terms1, terms2, methodFn, graph); with a methodFn that cannot be
\* called the first simMethod(graph, t1, t2) throws
ScoreFn(scoreFn, terms1, terms2, fn, g) ==
  IF ~Callable(fn) /\ terms1 # <<>> /\ terms2 # <<>> THEN TypeError
  ELSE Aggregate(scoreFn, terms1, terms2, SimTable(fn, g, terms1, terms2))

\* parseNumber (lines 497-500): value is Num(n), or what Number() turns
\* into NaN
ParseNumber(value, fallback) == IF IsNum(value) THEN value.v ELSE fallback

\* a document of the GO collection: term is the list of the segments of
\* row.term between "|", terms is row.terms (<<>> when it is no array or
\* an empty one); "" stands for a blank item
Row(gene, term, terms) == [gene |-> gene, term |-> term, terms |-> terms]

NonBlank(list) == SelectSeq(list, LAMBDA x : x # "")

\* toTermsArray (lines 1135-1143)
ToTermsArray(row) ==
  IF Len(row.terms) > 0 THEN NonBlank(row.terms) ELSE NonBlank(row.term)

\* the index of a key in a Map kept as the list of its entries, or 0
IndexOf(map, gene) ==
  IF \E i \in 1..Len(map) : map[i].gene = gene
  THEN CHOOSE i \in 1..Len(map) : map[i].gene = gene
  ELSE 0

\* the loop of fetchSpeciesGeneTerms over the rows found (lines 1165-1177):
\* map.set keeps the place of a key that is already there
RECURSIVE FetchSpeciesGeneTerms(_, _)
FetchSpeciesGeneTerms(map, rows) ==
  IF rows = <<>> THEN map
  ELSE LET row == Head(rows)
           entry == [gene |-> row.gene, terms |-> ToTermsArray(row)]
           i == IndexOf(map, row.gene)
       IN  IF row.gene = "" THEN FetchSpeciesGeneTerms(map, Tail(rows))
           ELSE IF i = 0
           THEN FetchSpeciesGeneTerms(Append(map, entry), Tail(rows))
           ELSE FetchSpeciesGeneTerms([map EXCEPT ![i] = entry], Tail(rows))

\* the record pushed at lines 1253-1260 (Host_GO and Pathogen_GO are the
\* joined term lists of the two rows)
Record(hostRow, pathogenRow, score) ==
  [Host_Protein |-> hostRow.gene, Pathogen_Protein |-> pathogenRow.gene,
   Host_GO |-> hostRow.terms, Pathogen_GO |-> pathogenRow.terms,
   score |-> score]

\* score === null || score === undefined || score < threshold: a comparison
\* with NaN is false
Dropped(score, threshold) ==
  score = Null \/ (IsNum(score) /\ score.v < threshold)

\* the rows a loop does not skip (lines 1242-1244 and 1246-1248)
MutScorable(rows) == rows

Scorable(rows) == SelectSeq(rows, LAMBDA row : Len(row.terms) # 0)

\* The calls of scoreFn the two loops (lines 1241-1262) make when none
\* throws, in order, host row by host row, each with the rows it is for and
\* the score it returns; hs and ps are the rows the loops do not skip.
ScoreCalls(hs, ps, ctx) ==
  [k \in 1..(Len(hs) * Len(ps)) |->
     Record(hs[((k - 1) \div Len(ps)) + 1], ps[((k - 1) % Len(ps)) + 1],
            ScoreFn(ctx.scoreFn, hs[((k - 1) \div Len(ps)) + 1].terms,
                    ps[((k - 1) % Len(ps)) + 1].terms,
                    ctx.methodFn, ctx.graph))]

Pairs(made) ==
  [k \in 1..Len(made) |-> [host |-> made[k].Host_Protein,
                            pathogen |-> made[k].Pathogen_Protein]]

\* What the loops leave: scored is the history of the calls of scoreFn,
\* results the list of the records pushed.  An exception thrown by scoreFn
\* ends the loops; it is thrown, if at all, by the first call.
Outcome(made, ctx) ==
  IF made # <<>> /\ ~Callable(ctx.methodFn)
  THEN [scored |-> Pairs(<<made[1]>>), results |-> <<>>,
        error |-> "TypeError"]
  ELSE [scored |-> Pairs(made),
        results |-> SelectSeq(made, LAMBDA r :
                                ~Dropped(r.score, ctx.threshold)),
        error |-> "none"]

\* lines 1236-1262
ScoringLoops(hostMap, pathogenMap, ctx) ==
  IF Len(hostMap) = 0 \/ Len(pathogenMap) = 0
  THEN [scored |-> <<>>, results |-> <<>>, error |-> "none"]
  ELSE Outcome(ScoreCalls(Scorable(hostMap), Scorable(pathogenMap), ctx), ctx)

\* ------------------------------------------------------------------------
\* Inputs of JobSpec
\* ------------------------------------------------------------------------
\* method: payload.method, the names of methodMap, names in other letter
\* cases or padded, names of members of Object.prototype, others, none;
\* score: payload.score; threshold: payload.threshold in thousandths, or a
\* text that is no number; hostRows, pathogenRows: what the two lookups may
\* find
JobInputs ==
  [method |->
     DOMAIN MethodMapOwn \cup DOMAIN ObjectPrototype
       \cup {<<"W","A","N","G">>, <<" ","L","i","n"," ">>,
             <<"t","o","S","t","r","i","n","g">>, <<"f","o","o">>, <<>>},
   score |->
     {Names.max, <<"A","V","G">>, <<" ","B","m","a">>, <<"f","o","o">>},
   threshold |-> {Num(0), Num(500), Num(-1000), [k |-> "text"]},
   hostRows |->
     { <<>>,
       << Row("h1", <<>>, <<"GO:2">>), Row("h2", <<"">>, <<>>) >>,
       << Row("h1", <<"GO:2", "", "GO:3">>, <<>>), Row("", <<"GO:1">>, <<>>),
          Row("h2", <<"GO:1">>, <<"">>) >>,
       << Row("h1", <<"GO:1">>, <<>>), Row("h2", <<>>, <<"GO:9">>),
          Row("h1", <<>>, <<>>) >> },
   pathogenRows |->
     { <<>>,
       << Row("p1", <<>>, <<"GO:3">>), Row("p2", <<>>, <<>>) >>,
       << Row("p1", <<>>, <<>>), Row("p2", <<"GO:2">>, <<>>),
          Row("p3", <<"GO:9">>, <<>>) >> }]

JobInit ==
  /\ job \in [pc : {"start"},
              payload : {Payload(m, sc, Human, Human, <<"h1", "h2">>,
                                 <<"p1", "p2", "p3">>) :
                           m \in JobInputs.method, sc \in JobInputs.score},
              threshold : JobInputs.threshold,
              hostRows : JobInputs.hostRows,
              pathogenRows : JobInputs.pathogenRows,
              error : {"none"},
              hostMap : {<<>>}, pathogenMap : {<<>>},
              out : {[scored |-> <<>>, results |-> <<>>, error |-> "none"]}]
  /\ ProcIdle
  /\ ParseIdle
  /\ QueryIdle

\* lines 1193-1216: the names are checked; nothing else has happened
JobValidate ==
  /\ job.pc = "start"
  /\ job' = IF ValidationError(job.payload) # "none"
            THEN [job EXCEPT !.pc = "rejected",
                             !.error = ValidationError(job.payload)]
            ELSE [job EXCEPT !.pc = "looking up"]
  /\ UNCHANGED <<procVars, parseVars, queryVars>>

\* the locals of runGoSimJob the loops read; the graph is the one of three
\* terms
Context ==
  [scoreFn |-> GetScoreFn(job.payload.score),
   methodFn |-> GetMethodFn(job.payload.method),
   threshold |-> ParseNumber(job.threshold, 0),
   graph |-> FixtureGraph]

\* lines 1220-1264 once the lookups and the graph are there: the maps, the
\* loops, and the call ends: with persistGoResults(out.results), or with
\* the exception out.error
JobScore ==
  /\ job.pc = "looking up"
  /\ job' = [job EXCEPT
               !.pc = "finished",
               !.hostMap = FetchSpeciesGeneTerms(<<>>, job.hostRows),
               !.pathogenMap = FetchSpeciesGeneTerms(<<>>, job.pathogenRows),
               !.out = ScoringLoops(
                         FetchSpeciesGeneTerms(<<>>, job.hostRows),
                         FetchSpeciesGeneTerms(<<>>, job.pathogenRows),
                         Context)]
  /\ UNCHANGED <<procVars, parseVars, queryVars>>

JobNext == JobValidate \/ JobScore

JobSpec == JobInit /\ [][JobNext]_vars

\* ------------------------------------------------------------------------
\* Properties of the scoring part (specification JobSpec)
\* ------------------------------------------------------------------------
\* C7: every method name other than the supported ones is rejected as an
\* input error.  Stated for the names that, trimmed and in lower case, are
\* none of those the error message of line 1205 lists (wang, resnik, lin,
\* pekar, lowest_common_ancestor): such a name is none of resnik, lin, wang,
\* pekar in any letter case.
C7_OtherNamesRejected ==
  job.pc \in {"rejected", "looking up", "finished"}
    /\ Normalize(job.payload.method) \notin DOMAIN MethodMapOwn
    => job.error = "400 Unsupported GO method"

\* map.get(gene).terms of a Map kept as the list of its entries
TermsOf(map, gene) == map[IndexOf(map, gene)].terms

\* C8: whatever the threshold, no record names a host gene or a pathogen
\* gene whose term list is empty, and scoreFn is not called for a pair with
\* such a gene.
C8_NoEmptyTermGene ==
  job.pc = "finished" =>
    /\ \A i \in 1..Len(job.out.results) :
         /\ TermsOf(job.hostMap, job.out.results[i].Host_Protein) # <<>>
         /\ TermsOf(job.pathogenMap,
                    job.out.results[i].Pathogen_Protein) # <<>>
    /\ \A i \in 1..Len(job.out.scored) :
         /\ TermsOf(job.hostMap, job.out.scored[i].host) # <<>>
         /\ TermsOf(job.pathogenMap, job.out.scored[i].pathogen) # <<>>

\* a threshold that is no number, a host gene and a pathogen gene without
\* terms, and yet a record in the list
C8_Witness ==
  /\ job.pc = "finished"
  /\ job.threshold = [k |-> "text"]
  /\ \E i \in 1..Len(job.hostMap) : job.hostMap[i].terms = <<>>
  /\ \E i \in 1..Len(job.pathogenMap) : job.pathogenMap[i].terms = <<>>
  /\ job.out.results # <<>>

\* C9: a pair has a record only if its aggregate score is defined and is at
\* least the threshold, and a pair without a defined score does not make
\* the call fail.
C9_KeptIffScoreReachesThreshold ==
  job.pc = "finished" =>
    /\ job.out.error = "none"
    /\ \A i \in 1..Len(job.out.results) :
         /\ IsNum(job.out.results[i].score)
         /\ job.out.results[i].score.v >= ParseNumber(job.threshold, 0)

\* ========================================================================
\* Calls on a loaded graph (specification QuerySpec): the graph is the one
\* loadGoGraph built from a file, held in nodes, parents, children and
\* altIds; every call reads and fills the caches.
\* ========================================================================
\* number of calls made on the graph
MaxQueries == 2

Term(id, lines) == [tag |-> "Term", lines |-> Header(id) \o lines]

\* the files loaded: three terms, two of them below the first; a term with
\* two parents of the same lowerBound at different depths; a term from
\* which two part_of edges and four is_a edges lead to the same ancestor;
\* edges of three types, an alt_id and paths of different lengths; a term
\* whose alt_id is the id of another term
QueryFiles ==
  { << Term("GO:1", <<>>),
       Term("GO:2", <<Field("is_a", "GO:1")>>),
       Term("GO:3", <<Field("is_a", "GO:1")>>) >>,
    << Term("GO:2", <<Field("is_a", "GO:1")>>),
       Term("GO:3", <<Field("is_a", "GO:1")>>),
       Term("GO:4", <<Field("is_a", "GO:2")>>),
       Term("GO:5", <<Field("is_a", "GO:3"), Field("is_a", "GO:4")>>),
       Term("GO:6", <<Field("is_a", "GO:4"), Field("is_a", "GO:3")>>) >>,
    << Term("GO:2", <<Field("is_a", "GO:1")>>),
       Term("GO:3", <<Line("relationship", <<"part_of", "GO:2">>)>>),
       Term("GO:4", <<Field("is_a", "GO:2")>>),
       Term("GO:5", <<Field("is_a", "GO:4")>>),
       Term("GO:6", <<Field("is_a", "GO:5")>>),
       Term("GO:7", <<Line("relationship", <<"part_of", "GO:3">>),
                      Field("is_a", "GO:6")>>) >>,
    << Term("GO:1", <<Field("alt_id", "GO:8")>>),
       Term("GO:2", <<Field("is_a", "GO:1")>>),
       Term("GO:3", <<Line("relationship", <<"part_of", "GO:2">>),
                      Field("is_a", "GO:1")>>),
       Term("GO:4", <<Line("relationship", <<"regulates", "GO:3">>),
                      Field("is_a", "GO:2")>>) >>,
    << Term("GO:2", <<Field("alt_id", "GO:8")>>),
       Term("GO:3", <<Field("is_a", "GO:2")>>),
       Term("GO:4", <<Field("is_a", "GO:2")>>),
       Term("GO:6", <<Field("is_a", "GO:3")>>),
       Term("GO:5", <<Field("alt_id", "GO:2")>>) >> }

\* the identifiers a caller passes: the nodes, the alt ids, an identifier
\* that is neither, and the empty one
QueryTerms == nodes \cup DOMAIN altIds \cup {"GO:9", ""}

\* the graph object: the loaded graph with its caches as they are now
Loaded ==
  [nodes |-> nodes, parents |-> parents, children |-> children,
   altIds |-> altIds, totalNodes |-> Cardinality(nodes),
   ancestorCache |-> ancestorCache, descendantCache |-> descendantCache,
   lowerBoundCache |-> lowerBoundCache, sValueCache |-> sValueCache,
   pathCache |-> pathCache]

QueryInit ==
  /\ \E file \in QueryFiles :
       LET G == LoadStanzas(EmptyGraph, file)
       IN  /\ nodes = G.nodes /\ parents = G.parents
           /\ children = G.children /\ altIds = G.altIds
           /\ blockType = "Term" /\ blockLines = file[Len(file)].lines
           /\ flushed = Len(file) /\ referenced = G.nodes
  /\ loadResult = "graph"
  /\ ProcIdle
  /\ JobIdle
  /\ QueryIdle

\* ------------------------------------------------------------------------
\* What a call leaves in the caches.  A call of one of the five memoised
\* functions is <<kind, a, b>>: "anc" getAncestors(a), "desc"
\* getDescendants(a), "lb" lowerBound(a), "sv" sValues(a) and "path"
\* shortestPathLength(a, b).
\* ------------------------------------------------------------------------
\* the calls in lowestCommonAncestor (lines 831-832, 848, 851), t1 and t2
\* being the resolved terms
LcaCalls(g, t1, t2) ==
  IF t1 = "" \/ t2 = "" THEN {}
  ELSE {<<"anc", t1, "">>, <<"anc", t2, "">>}
         \cup {<<"lb", c, "">> :
                 c \in {x \in g.nodes :
                          SeqHas(Common(GetAncestors(g, t1),
                                        GetAncestors(g, t2), t1, t2), x)}}

\* the calls resnik (line 865), lin (line 871) and pekar (lines 1002-1019)
\* make once lowestCommonAncestor has returned mica
CallsAfterLca(op, g, mica, term1, term2) ==
  IF mica = NULL \/ op = "lowestCommonAncestor" THEN {}
  ELSE IF op # "pekar" THEN {<<"lb", mica, "">>}
  ELSE {<<"path", mica, term1>>, <<"path", mica, term2>>}
         \cup (IF ShortestPathLength(g, mica, term1) = Null
                  \/ ShortestPathLength(g, mica, term2) = Null
               THEN {}
               ELSE {<<"anc", mica, "">>, <<"lb", mica, "">>,
                     <<"path",
                       PickRoot(g, GetAncestors(g, mica), mica,
                                LbOr(g, mica, 0)),
                       mica>>}
                      \cup {<<"lb", a, "">> :
                              a \in {x \in g.nodes :
                                       SeqHas(GetAncestors(g, mica), x)}})

\* the calls of the memoised functions that one call of op makes
LeafCalls(op, g, term1, term2) ==
  IF op = "getAncestors" THEN {<<"anc", term1, "">>}
  ELSE IF op = "getDescendants" THEN {<<"desc", term1, "">>}
  ELSE IF op \in {"lowerBound", "informationContent"}
       THEN {<<"lb", term1, "">>}
  ELSE IF op = "sValues" THEN {<<"sv", term1, "">>}
  ELSE IF op = "wang" THEN {<<"sv", term1, "">>, <<"sv", term2, "">>}
  ELSE IF op = "shortestPathLength" THEN {<<"path", term1, term2>>}
  ELSE (IF op = "lin" THEN {<<"lb", term1, "">>, <<"lb", term2, "">>}
        ELSE {})
         \cup LcaCalls(g, ResolveTerm(g, term1), ResolveTerm(g, term2))
         \cup CallsAfterLca(op, g, LowestCommonAncestor(g, term1, term2),
                            term1, term2)

\* the entries <<key, value>> that the calls cs set in the cache of a kind,
\* when the key is not there yet: a function that resolves its argument
\* (lines 752, 778, 804, 883, 958-959) sets the resolved id as key (lines
\* 773, 799, 812, 927, 992); lowerBound calls getDescendants on a miss
\* (line 811)
Entries(g, cs, kind) ==
  IF kind = "anc"
  THEN {<<ResolveTerm(g, c[2]), GetAncestors(g, c[2])>> :
          c \in {c \in cs : c[1] = "anc" /\ ResolveTerm(g, c[2]) # ""}}
  ELSE IF kind = "lb"
  THEN {<<ResolveTerm(g, c[2]), LowerBound(g, c[2])>> :
          c \in {c \in cs : c[1] = "lb" /\ ResolveTerm(g, c[2]) # ""}}
  ELSE IF kind = "desc"
  THEN {<<ResolveTerm(g, t), GetDescendants(g, t)>> :
          t \in {t \in {c[2] : c \in {c \in cs : c[1] = "desc"}}
                        \cup {ResolveTerm(g, c[2]) :
                                c \in {c \in cs :
                                         /\ c[1] = "lb"
                                         /\ ~HasKey(g.lowerBoundCache,
                                                    ResolveTerm(g, c[2]))}} :
                   ResolveTerm(g, t) # ""}}
  ELSE IF kind = "sv"
  THEN {<<ResolveTerm(g, c[2]), SValues(g, c[2])>> :
          c \in {c \in cs : c[1] = "sv" /\ ResolveTerm(g, c[2]) # ""}}
  ELSE {<< <<ResolveTerm(g, c[2]), ResolveTerm(g, c[3])>>,
           ShortestPathLength(g, c[2], c[3]) >> :
          c \in {c \in cs : /\ c[1] = "path"
                            /\ ResolveTerm(g, c[2]) # ""
                            /\ ResolveTerm(g, c[3]) # ""
                            /\ ResolveTerm(g, c[2]) # ResolveTerm(g, c[3])}}

\* a cache that is cleared before the new entries are set
MutMemoize(cache, entries) ==
  IF entries = {} THEN cache
  ELSE [k \in {e[1] : e \in entries} |->
          (CHOOSE e \in entries : e[1] = k)[2]]

\* cache.set(key, value) for the entries whose key the cache has not
Memoize(cache, entries) ==
  IF entries = {} THEN cache
  ELSE [k \in DOMAIN cache \cup {e[1] : e \in entries} |->
          IF HasKey(cache, k) THEN cache[k]
          ELSE (CHOOSE e \in entries : e[1] = k)[2]]

\* what a call of an exported function returns
Apply(op, g, term1, term2) ==
  IF op = "getAncestors" THEN GetAncestors(g, term1)
  ELSE IF op = "getDescendants" THEN GetDescendants(g, term1)
  ELSE IF op = "lowerBound" THEN LowerBound(g, term1)
  ELSE IF op = "informationContent" THEN InformationContent(g, term1)
  ELSE IF op = "sValues"
       THEN IF ResolveTerm(g, term1) = "" THEN Null ELSE SValues(g, term1)
  ELSE IF op = "shortestPathLength"
       THEN ShortestPathLength(g, term1, term2)
  ELSE IF op = "lowestCommonAncestor"
       THEN LowestCommonAncestor(g, term1, term2)
  ELSE SimMethod(op, g, term1, term2)

\* history: the calls among cs that the caches as they were before the call
\* answer (lines 756, 782, 808, 887, 967)
Hits(g, cs) ==
  {c \in cs :
     LET key == ResolveTerm(g, c[2])
     IN  \/ c[1] = "anc" /\ HasKey(g.ancestorCache, key)
         \/ c[1] = "desc" /\ HasKey(g.descendantCache, key)
         \/ c[1] = "lb" /\ HasKey(g.lowerBoundCache, key)
         \/ c[1] = "sv" /\ HasKey(g.sValueCache, key)
         \/ c[1] = "path"
              /\ HasKey(g.pathCache, <<key, ResolveTerm(g, c[3])>>)}

\* the caches after the calls cs, made on the graph g
Remember(g, cs) ==
  /\ ancestorCache' = Memoize(ancestorCache, Entries(g, cs, "anc"))
  /\ descendantCache' = Memoize(descendantCache, Entries(g, cs, "desc"))
  /\ lowerBoundCache' = Memoize(lowerBoundCache, Entries(g, cs, "lb"))
  /\ sValueCache' = Memoize(sValueCache, Entries(g, cs, "sv"))
  /\ pathCache' = Memoize(pathCache, Entries(g, cs, "path"))

\* a call that adds the identifier it was given to the nodes
MutQuery(op, term1, term2) ==
  /\ loadResult = "graph"
  /\ call.op = "none"
  /\ queries < MaxQueries
  /\ call' = [op |-> op, term1 |-> term1, term2 |-> term2,
              result |-> Apply(op, Loaded, term1, term2),
              hits |-> Hits(Loaded, LeafCalls(op, Loaded, term1, term2))]
  /\ Remember(Loaded, LeafCalls(op, Loaded, term1, term2))
  /\ queries' = queries + 1
  /\ nodes' = nodes \cup {term1}
  /\ UNCHANGED <<parents, children, altIds, blockType, blockLines, flushed,
                 referenced, loadResult>>
  /\ UNCHANGED <<procVars, jobVars>>

\* a caller calls one of the functions of the graph; calls do not overlap
\* (the functions are synchronous)
Query(op, term1, term2) ==
  /\ loadResult = "graph"
  /\ call.op = "none"
  /\ queries < MaxQueries
  /\ call' = [op |-> op, term1 |-> term1, term2 |-> term2,
              result |-> Apply(op, Loaded, term1, term2),
              hits |-> Hits(Loaded, LeafCalls(op, Loaded, term1, term2))]
  /\ Remember(Loaded, LeafCalls(op, Loaded, term1, term2))
  /\ queries' = queries + 1
  /\ UNCHANGED <<procVars, parseVars, jobVars>>

\* the term lists of a gene: a term that has no child, or all such terms
TermLists ==
  LET leaves == {t \in nodes : MapGet(children, t) = <<>>}
  IN  {<<t>> : t \in leaves}
        \cup {CHOOSE list \in [1..Cardinality(leaves) -> leaves] :
                \A t \in leaves : SeqHas(list, t)}

\* a caller calls an aggregator of getScoreFn with a metric
Score(scoreFn, fn, terms1, terms2) ==
  /\ loadResult = "graph"
  /\ call.op = "none"
  /\ queries < MaxQueries
  /\ call' = [op |-> scoreFn, fn |-> fn, terms1 |-> terms1,
              terms2 |-> terms2,
              result |-> ScoreFn(scoreFn, terms1, terms2, fn, Loaded)]
  /\ Remember(Loaded,
              UNION {LeafCalls(fn, Loaded, terms1[i], terms2[j]) :
                       i \in 1..Len(terms1), j \in 1..Len(terms2)})
  /\ queries' = queries + 1
  /\ UNCHANGED <<procVars, parseVars, jobVars>>

\* the caller has the result; the next call can be made
Return ==
  /\ call.op # "none"
  /\ call' = [op |-> "none"]
  /\ UNCHANGED <<ancestorCache, descendantCache, lowerBoundCache,
                 sValueCache, pathCache, queries>>
  /\ UNCHANGED <<procVars, parseVars, jobVars>>

QueryNext ==
  \/ \E op \in {"getAncestors", "getDescendants", "lowerBound",
                "informationContent", "sValues"}, term \in QueryTerms :
       Query(op, term, "")
  \/ \E op \in {"lowestCommonAncestor", "shortestPathLength", "resnik",
                "lin", "wang", "pekar"}, term1, term2 \in QueryTerms :
       Query(op, term1, term2)
  \/ \E scoreFn \in {"simMax", "simAvg", "simBma"},
        fn \in {"resnik", "lin", "wang", "pekar"},
        terms1, terms2 \in TermLists :
       Score(scoreFn, fn, terms1, terms2)
  \/ Return

QuerySpec == QueryInit /\ [][QueryNext]_vars

\* ========================================================================
\* The loops of getAncestors, getDescendants, sValues and
\* shortestPathLength, one iteration at a time (specification LoopSpec), on
\* graphs with cycles and self-loops.  call holds the locals of the loop
\* that is running; the caches stay empty.
\* ========================================================================
\* files whose relationships form a self-loop of each type, a cycle of
\* three terms with a way out, two cycles that share terms, and none
LoopFiles ==
  { << Term("GO:1", <<Field("is_a", "GO:1")>>),
       Term("GO:2", <<Field("is_a", "GO:1"),
                      Line("relationship", <<"part_of", "GO:2">>)>>) >>,
    << Term("GO:1", <<Field("is_a", "GO:2")>>),
       Term("GO:2", <<Field("is_a", "GO:3")>>),
       Term("GO:3", <<Field("is_a", "GO:1"),
                      Line("relationship", <<"part_of", "GO:4">>)>>) >>,
    << Term("GO:1", <<Field("is_a", "GO:2"),
                      Line("relationship", <<"part_of", "GO:3">>)>>),
       Term("GO:2", <<Field("is_a", "GO:1")>>),
       Term("GO:3", <<Line("relationship", <<"part_of", "GO:1">>),
                      Field("is_a", "GO:2")>>) >>,
    << Term("GO:2", <<Field("is_a", "GO:1")>>),
       Term("GO:3", <<Line("relationship", <<"part_of", "GO:1">>)>>),
       Term("GO:4", <<Field("is_a", "GO:2"), Field("is_a", "GO:3")>>) >> }

LoopInit ==
  /\ \E file \in LoopFiles :
       LET G == LoadStanzas(EmptyGraph, file)
       IN  /\ nodes = G.nodes /\ parents = G.parents
           /\ children = G.children /\ altIds = G.altIds
           /\ blockType = "Term" /\ blockLines = file[Len(file)].lines
           /\ flushed = Len(file) /\ referenced = G.nodes
  /\ loadResult = "graph"
  /\ ProcIdle
  /\ JobIdle
  /\ QueryIdle

\* the function is entered with terms that resolve and its loop is set up
\* (lines 759-761, 785-787, 891-893, 972-974)
Begin(op, term1, term2) ==
  /\ loadResult = "graph"
  /\ call.op = "none"
  /\ queries < MaxQueries
  /\ term1 \in nodes /\ term2 \in nodes
  /\ call' =
       IF op = "getAncestors"
       THEN [op |-> op, stack |-> Adjacent(Loaded, TRUE, term1),
             visited |-> <<>>]
       ELSE IF op = "getDescendants"
       THEN [op |-> op, stack |-> Adjacent(Loaded, FALSE, term1),
             visited |-> <<>>]
       ELSE IF op = "sValues"
       THEN [op |-> op, sv |-> MapSet(<<>>, term1, 1000000),
             level |-> <<term1>>, visited |-> <<>>]
       ELSE [op |-> op, queue |-> <<[node |-> term1, dist |-> 0]>>,
             visited |-> <<term1>>, result |-> Null, i |-> 1,
             dst |-> term2]
  /\ queries' = queries + 1
  /\ UNCHANGED <<ancestorCache, descendantCache, lowerBoundCache,
                 sValueCache, pathCache>>
  /\ UNCHANGED <<procVars, parseVars, jobVars>>

\* sValues whose loop does not add the level to visited
MutLoopStep(g, st) ==
  LET acc == SvLevel(g, [sv |-> st.sv, nextLevel |-> <<>>], st.level,
                     st.visited)
  IN  IF st.op = "sValues"
      THEN [st EXCEPT !.sv = acc.sv, !.level = acc.nextLevel]
      ELSE [op |-> "none"]

\* one iteration of the loop that is running: lines 763-771 and 789-797
\* (the stack is popped), lines 896-920 (one level), lines 975-990 (one
\* entry of the queue)
LoopStep(g, st) ==
  IF st.op \in {"getAncestors", "getDescendants"}
  THEN LET current == st.stack[Len(st.stack)]
           rest == SubSeq(st.stack, 1, Len(st.stack) - 1)
       IN  IF current = "" \/ SeqHas(st.visited, current)
           THEN [st EXCEPT !.stack = rest]
           ELSE [st EXCEPT
                   !.stack = rest \o Adjacent(g, st.op = "getAncestors",
                                              current),
                   !.visited = Append(@, current)]
  ELSE IF st.op = "sValues"
  THEN LET acc == SvLevel(g, [sv |-> st.sv, nextLevel |-> <<>>], st.level,
                          st.visited)
       IN  [st EXCEPT !.sv = acc.sv, !.level = acc.nextLevel,
                      !.visited = AddAll(@, st.level)]
  ELSE LET acc == SplChildren([queue |-> st.queue, visited |-> st.visited,
                               result |-> st.result],
                              MapGet(g.children, st.queue[st.i].node),
                              st.queue[st.i].dist, st.dst)
       IN  [st EXCEPT !.queue = acc.queue, !.visited = acc.visited,
                      !.result = acc.result, !.i = @ + 1]

\* the loop goes round once more, or its condition fails and the function
\* returns
Step ==
  /\ call.op # "none"
  /\ LET running ==
           IF call.op \in {"getAncestors", "getDescendants"}
           THEN call.stack # <<>>
           ELSE IF call.op = "sValues" THEN call.level # <<>>
           ELSE call.i <= Len(call.queue) /\ call.result = Null
     IN  call' = IF running THEN LoopStep(Loaded, call) ELSE [op |-> "none"]
  /\ UNCHANGED <<ancestorCache, descendantCache, lowerBoundCache,
                 sValueCache, pathCache, queries>>
  /\ UNCHANGED <<procVars, parseVars, jobVars>>

LoopNext ==
  \/ \E op \in {"getAncestors", "getDescendants", "sValues"},
        term \in nodes :
       Begin(op, term, term)
  \/ \E term1, term2 \in nodes :
       term1 # term2 /\ Begin("shortestPathLength", term1, term2)
  \/ Step

\* a function that was entered runs on
LoopSpec == LoopInit /\ [][LoopNext]_vars /\ WF_vars(Step)

\* C12: on a loaded acyclic graph, lowestCommonAncestor(t, t) returns t
\* for every node t.
C12_LcaOfSelf ==
  call.op = "lowestCommonAncestor" /\ call.term1 = call.term2
    /\ call.term1 \in nodes
    => call.result = call.term1

\* C13: resnik(t1, t2) is resnik(t2, t1) for all terms that resolve.
C13_ResnikSymmetric ==
  call.op = "resnik" /\ ResolveTerm(Loaded, call.term1) # ""
    /\ ResolveTerm(Loaded, call.term2) # ""
    => call.result = Resnik(Loaded, call.term2, call.term1)

\* resnik was called on two terms for which lowestCommonAncestor picks
\* another candidate when they are swapped, and returned a number
C13_Witness ==
  /\ call.op = "resnik" /\ IsNum(call.result)
  /\ LowestCommonAncestor(Loaded, call.term1, call.term2)
       # LowestCommonAncestor(Loaded, call.term2, call.term1)

\* C14: every result of lin, wang and pekar that is not null is a number
\* from 0 to 1.
C14_UnitInterval ==
  call.op \in {"lin", "wang", "pekar"} /\ call.result # Null
    => IsNum(call.result) /\ call.result.v >= 0 /\ call.result.v <= 1000

\* C15: the bma aggregator gives the same result for (A, B) and for (B, A),
\* for every metric and all term lists that are not empty
C15_BmaSymmetric ==
  call.op = "simBma" /\ call.terms1 # <<>> /\ call.terms2 # <<>>
    => call.result
         = ScoreFn("simBma", call.terms2, call.terms1, call.fn, Loaded)

\* C16: on the graph of the three stanzas GO:1, GO:2 (is_a GO:1) and GO:3
\* (is_a GO:1), lowestCommonAncestor(GO:2, GO:3) is GO:1, lowerBound(GO:1)
\* is 3 and so is totalNodes, informationContent(GO:1) is 0, and resnik
\* between the term lists {GO:2} and {GO:3} is 0 under every aggregator
C16_ThreeTerms ==
  LET isA == <<[id |-> "GO:1", type |-> "is_a"]>>
  IN  /\ nodes = {"GO:1", "GO:2", "GO:3"}
      /\ parents = [t \in nodes |-> IF t = "GO:1" THEN <<>> ELSE isA]
      /\ altIds = <<>>
      => /\ Loaded.totalNodes = 3
         /\ call.op = "lowestCommonAncestor"
              /\ {call.term1, call.term2} = {"GO:2", "GO:3"}
              => call.result = "GO:1"
         /\ call.op = "lowerBound" /\ call.term1 = "GO:1"
              => call.result = Num(3)
         /\ call.op = "informationContent" /\ call.term1 = "GO:1"
              => call.result = Num(0)
         /\ call.op = "resnik"
              /\ {call.term1, call.term2} = {"GO:2", "GO:3"}
              => call.result = Num(0)
         /\ call.op \in {"simMax", "simAvg", "simBma"}
              /\ call.fn = "resnik"
              /\ {call.terms1, call.terms2} = {<<"GO:2">>, <<"GO:3">>}
              => call.result = Num(0)

\* the second call on the three terms is resnik under bma
C16_Witness ==
  /\ nodes = {"GO:1", "GO:2", "GO:3"}
  /\ MapGet(parents, "GO:2") = <<[id |-> "GO:1", type |-> "is_a"]>>
  /\ MapGet(parents, "GO:3") = <<[id |-> "GO:1", type |-> "is_a"]>>
  /\ call.op = "simBma" /\ call.fn = "resnik"
  /\ call.terms1 = <<"GO:2">> /\ call.terms2 = <<"GO:3">>
  /\ call.result = Num(0)
  /\ HasKey(lowerBoundCache, "GO:1") /\ lowerBoundCache["GO:1"] = Num(3)

\* C17: for an identifier that resolves to no node every function of the
\* graph returns its undefined result and does not throw: getAncestors and
\* getDescendants the empty set, the others null; no cache has an entry
\* for such an identifier, and a first call with no other identifier leaves
\* the caches empty
C17_Unresolvable ==
  LET unresolved(t) == t = "" \/ (t \notin nodes /\ ~HasKey(altIds, t))
  IN  /\ call.op \in {"getAncestors", "getDescendants"}
           /\ unresolved(call.term1)
           => call.result = <<>>
      /\ call.op \in {"lowerBound", "informationContent", "sValues"}
           /\ unresolved(call.term1)
           => call.result = Null
      /\ call.op = "lowestCommonAncestor"
           /\ (unresolved(call.term1) \/ unresolved(call.term2))
           => call.result = NULL
      /\ call.op \in {"shortestPathLength", "resnik", "lin", "wang", "pekar"}
           /\ (unresolved(call.term1) \/ unresolved(call.term2))
           => call.result = Null
      /\ \A t \in DOMAIN ancestorCache \cup DOMAIN descendantCache
                 \cup DOMAIN lowerBoundCache \cup DOMAIN sValueCache :
           ~unresolved(t)
      /\ \A key \in DOMAIN pathCache :
           ~unresolved(key[1]) /\ ~unresolved(key[2])
      /\ call.op \notin {"none", "simMax", "simAvg", "simBma"}
           /\ unresolved(call.term1) /\ unresolved(call.term2)
           /\ queries = 1
           => /\ ancestorCache = <<>> /\ descendantCache = <<>>
              /\ lowerBoundCache = <<>> /\ sValueCache = <<>>
              /\ pathCache = <<>>

\* pekar of an identifier that is no node and a node, after a call that
\* filled a cache
C17_Witness ==
  /\ call.op = "pekar" /\ call.term1 = "GO:9" /\ call.term2 \in nodes
  /\ call.result = Null
  /\ ancestorCache # <<>>

\* C18: a call of a function of the graph, of a metric or of an aggregator
\* changes none of nodes, parents, children, altIds and totalNodes; what it
\* writes is the five caches
C18_GraphImmutable ==
  [][ queries' # queries
        => /\ UNCHANGED <<nodes, parents, children, altIds>>
           /\ Loaded'.totalNodes = Loaded.totalNodes
           /\ UNCHANGED <<procVars, blockType, blockLines, flushed,
                          referenced, loadResult, jobVars>> ]_vars

\* two calls were made and they filled caches
C18_Witness ==
  /\ queries = MaxQueries
  /\ call.op \in {"simMax", "simAvg", "simBma"} /\ call.fn = "wang"
  /\ sValueCache # <<>> /\ pathCache # <<>>
  /\ Cardinality(nodes) = 7

\* C19: the S-value that sValues(t) gives an ancestor a of t, reachable by
\* is_a and part_of edges, is the greatest product of the edge weights
\* (0.8 for is_a, 0.6 for part_of) over the parent paths from t to a,
\* rounded to 3 decimals; the graphs here are acyclic
C19_MaxPathProduct ==
  LET t == ResolveTerm(Loaded, call.term1)
      weight(type) ==
        IF type = "is_a" THEN 8 ELSE IF type = "part_of" THEN 6 ELSE 0
      Max(set) == CHOOSE m \in set : \A x \in set : x <= m
      RECURSIVE best(_)
      \* in millionths; 0 when no path of positive weight leads from t to a
      best(a) ==
        IF a = t THEN 1000000
        ELSE Max({0} \cup
                 {(best(c) * weight(parents[c][i].type)) \div 10 :
                    <<c, i>> \in
                      {<<c, i>> \in nodes \X (1..Cardinality(nodes)) :
                         /\ i <= Len(MapGet(parents, c))
                         /\ parents[c][i].id = a}})
  IN  call.op = "sValues" /\ t # ""
        => \A a \in nodes :
             best(a) > 0
               => /\ HasKey(call.result, a)
                  /\ call.result[a] = (best(a) + 500) \div 1000

\* C20: for a and b that resolve, shortestPathLength(a, b) is 0 when they
\* resolve to the same term; otherwise it is the least number of children
\* edges of a path from a down to b, and null exactly when b is no
\* descendant of a; the value the cache holds for the ordered pair, which a
\* repeated call returns, is that value
C20_ShortestPath ==
  LET src == ResolveTerm(Loaded, call.term1)
      dst == ResolveTerm(Loaded, call.term2)
      none == Cardinality(nodes)
      Min(set) == CHOOSE m \in set : \A x \in set : m <= x
      RECURSIVE edges(_)
      \* the least number of children edges from src down to x; none when
      \* no path leads there
      edges(x) ==
        IF x = src THEN 0
        ELSE Min({none} \cup
                 {edges(n) + 1 :
                    n \in {n \in nodes : SeqHas(MapGet(children, n), x)}})
  IN  call.op = "shortestPathLength" /\ src # "" /\ dst # ""
        => IF src = dst THEN call.result = Num(0)
           ELSE /\ call.result
                     = IF edges(dst) = none THEN Null ELSE Num(edges(dst))
                /\ call.result = Null
                     <=> ~SeqHas(Traverse(Loaded, FALSE,
                                          Adjacent(Loaded, FALSE, src), <<>>),
                                 dst)
                /\ HasKey(pathCache, <<src, dst>>)
                /\ pathCache[<<src, dst>>] = call.result

\* a call answered from the cache, of a path of more than one edge
C20_Witness ==
  /\ call.op = "shortestPathLength"
  /\ <<"path", call.term1, call.term2>> \in call.hits
  /\ IsNum(call.result) /\ call.result.v >= 2

\* C21: for t1 and t2 that resolve, lowestCommonAncestor is null exactly
\* when there is no candidate (t2 if it is an ancestor of t1, t1 if it is an
\* ancestor of t2, the common ancestors in the order of the ancestors of
\* t1, t1 if it equals t2); otherwise it is a candidate whose lowerBound no
\* candidate undercuts, the first such in candidate order
C21_LcaTieBreak ==
  LET t1 == ResolveTerm(Loaded, call.term1)
      t2 == ResolveTerm(Loaded, call.term2)
      a1 == GetAncestors(Loaded, t1)
      a2 == GetAncestors(Loaded, t2)
      candidates ==
        (IF SeqHas(a1, t2) THEN <<t2>> ELSE <<>>)
          \o (IF SeqHas(a2, t1) THEN <<t1>> ELSE <<>>)
          \o SelectSeq(a1, LAMBDA x : SeqHas(a2, x))
          \o (IF t1 = t2 THEN <<t1>> ELSE <<>>)
      lb(x) == LowerBound(Loaded, x).v
  IN  call.op = "lowestCommonAncestor" /\ t1 # "" /\ t2 # ""
        => /\ call.result = NULL <=> candidates = <<>>
           /\ candidates # <<>>
                => \E i \in 1..Len(candidates) :
                     /\ call.result = candidates[i]
                     /\ \A j \in 1..Len(candidates) :
                          lb(candidates[i]) <= lb(candidates[j])
                     /\ \A j \in 1..(i - 1) :
                          lb(candidates[j]) > lb(candidates[i])

\* two common ancestors of the same lowerBound, GO:4 being the first of
\* them among the ancestors of GO:5
C21_Witness ==
  /\ call.op = "lowestCommonAncestor"
  /\ call.term1 = "GO:5" /\ call.term2 = "GO:6"
  /\ call.result = "GO:4"
  /\ SeqHas(GetAncestors(Loaded, "GO:6"), "GO:3")
  /\ SeqHas(GetAncestors(Loaded, "GO:5"), "GO:3")
  /\ LowerBound(Loaded, "GO:3") = LowerBound(Loaded, "GO:4")

\* C22: a download follows at most 5 redirect responses and issues at most
\* 6 requests (the number issued is 6 less the budget that is left); every
\* redirect followed takes one from the budget, and with a budget of 0 no
\* response makes the download issue another request
C22_RedirectsBounded ==
  [][ \A k \in LoadIds :
        /\ loads'[k].pc = "request"
             => /\ loads'[k].redirects \in 0..DefaultMaxRedirects
                /\ DefaultMaxRedirects - loads'[k].redirects + 1 <= 6
        /\ loads[k].pc = "request" /\ loads'[k] # loads[k]
             /\ loads'[k].pc = "request"
             => /\ loads[k].redirects > 0
                /\ loads'[k].redirects = loads[k].redirects - 1
        /\ loads[k].pc = "request" /\ loads[k].redirects = 0
             /\ loads'[k] # loads[k] /\ loads'[k].pc # "body"
             => loads'[k].pc = "end" /\ loads'[k].inner = "rejected" ]_vars

\* the sixth request of a download is out: five redirects were followed
C22_Witness ==
  \E k \in LoadIds :
    /\ loads[k].pc = "request" /\ loads[k].dl = "pending"
    /\ loads[k].redirects = 0

\* C23: for every identifier t that resolves, getAncestors(t) is the set of
\* the term ids reached from the term t by one or more parents edges and
\* getDescendants(t) the set reached by one or more children edges (the
\* term of an alt id being its canonical id); the graphs here are acyclic
C23_Closure ==
  LET t == IF call.term1 \in nodes THEN call.term1
           ELSE IF HasKey(altIds, call.term1) THEN altIds[call.term1]
           ELSE ""
      RECURSIVE above(_)
      above(x) ==
        LET direct == {MapGet(parents, x)[i].id :
                         i \in 1..Len(MapGet(parents, x))}
        IN  direct \cup UNION {above(y) : y \in direct}
      RECURSIVE below(_)
      below(x) ==
        LET direct == {MapGet(children, x)[i] :
                         i \in 1..Len(MapGet(children, x))}
        IN  direct \cup UNION {below(y) : y \in direct}
      members == {call.result[i] : i \in 1..Len(call.result)}
  IN  /\ call.op = "getAncestors" /\ t # ""
           => members = above(t) /\ Len(call.result) = Cardinality(members)
      /\ call.op = "getDescendants" /\ t # ""
           => members = below(t) /\ Len(call.result) = Cardinality(members)

\* C24: after any sequence of stanzas parents and children mirror each
\* other: c is in children[p] exactly when parents[c] has an edge, of some
\* type, to p; hence a is reached from b by parents edges exactly when b is
\* reached from a by children edges
C24_Mirror ==
  LET ids == nodes \cup DOMAIN parents \cup DOMAIN children
      g == [parents |-> parents, children |-> children]
      reach(up, x) == Traverse(g, up, Adjacent(g, up, x), <<>>)
  IN  \A a, b \in ids :
        /\ SeqHas(MapGet(children, a), b)
             <=> \E i \in 1..Len(MapGet(parents, b)) : parents[b][i].id = a
        /\ SeqHas(reach(TRUE, b), a) <=> SeqHas(reach(FALSE, a), b)

\* GO:3 has two edges of different types to GO:1 and is its child once
C24_Witness ==
  /\ loadResult = "graph"
  /\ HasKey(parents, "GO:3") /\ Len(parents["GO:3"]) = 2
  /\ parents["GO:3"][1].id = "GO:1" /\ parents["GO:3"][2].id = "GO:1"
  /\ children["GO:1"] = <<"GO:3">>

\* C25: on a loaded graph resolveTerm is idempotent: when resolveTerm(x) is
\* an id c, resolveTerm(c) is c
C25_ResolveIdempotent ==
  loadResult = "graph"
    => \A x \in QueryTerms :
         ResolveTerm(Loaded, x) # ""
           => ResolveTerm(Loaded, ResolveTerm(Loaded, x))
                = ResolveTerm(Loaded, x)

\* C26: every download attempt settles: whatever the server and the file
\* system do, the promise of downloadFileWithRedirect is in the end
\* fulfilled or rejected
C26_DownloadSettles ==
  \A k \in 1..MaxLoads :
    (k \in LoadIds /\ loads[k].dl = "pending")
      ~> (k \in LoadIds /\ loads[k].dl # "pending")

\* C27: pekar is symmetric: for t1 and t2 that resolve, pekar(t1, t2) is
\* pekar(t2, t1); the graphs here are acyclic
C27_PekarSymmetric ==
  call.op = "pekar" /\ ResolveTerm(Loaded, call.term1) # ""
    /\ ResolveTerm(Loaded, call.term2) # ""
    => call.result = Pekar(Loaded, call.term2, call.term1)

\* C28: getAncestors, getDescendants, sValues and shortestPathLength
\* return on every graph, also when the parents form cycles or self-loops
C28_Terminates == (call.op # "none") ~> (call.op = "none")

\* on a graph with a cycle the traversal pops a term it has visited
C28_Witness ==
  /\ call.op \in {"getAncestors", "getDescendants"}
  /\ call.stack # <<>>
  /\ SeqHas(call.visited, call.stack[Len(call.stack)])
  /\ \E t \in nodes :
       SeqHas(Traverse(Loaded, TRUE, Adjacent(Loaded, TRUE, t), <<>>), t)

\* C29: every call returns what the same call returns on the same graph
\* with the five caches empty, and an entry of a cache, once written, is
\* neither changed nor removed
C29_MemoTransparent ==
  [][ LET cold == [Loaded EXCEPT !.ancestorCache = <<>>,
                                 !.descendantCache = <<>>,
                                 !.lowerBoundCache = <<>>,
                                 !.sValueCache = <<>>,
                                 !.pathCache = <<>>]
          kept(cache, after) ==
            \A key \in DOMAIN cache :
              HasKey(after, key) /\ after[key] = cache[key]
      IN  /\ call'.op \in {"simMax", "simAvg", "simBma"}
               => call'.result = ScoreFn(call'.op, call'.terms1,
                                         call'.terms2, call'.fn, cold)
          /\ call'.op \notin {"none", "simMax", "simAvg", "simBma"}
               => call'.result
                    = Apply(call'.op, cold, call'.term1, call'.term2)
          /\ kept(ancestorCache, ancestorCache')
          /\ kept(descendantCache, descendantCache')
          /\ kept(lowerBoundCache, lowerBoundCache')
          /\ kept(sValueCache, sValueCache')
          /\ kept(pathCache, pathCache') ]_vars

\* wang answered with S-values that an earlier call left in the cache
C29_Witness ==
  /\ call.op = "wang" /\ IsNum(call.result)
  /\ <<"sv", call.term1, "">> \in call.hits
  /\ call.term1 # call.term2

\* C30: when lowestCommonAncestor(t1, t2) is not null, the three path
\* lengths of pekar (from it to t1, from it to t2, from the root chosen to
\* it) are not null, and pekar(t1, t2) is null only when t1 and t2 resolve
\* to the same term and that term has no ancestors; the graphs here are
\* acyclic
C30_PekarPathLengths ==
  LET mica == LowestCommonAncestor(Loaded, call.term1, call.term2)
      root == PickRoot(Loaded, GetAncestors(Loaded, mica), mica,
                       LbOr(Loaded, mica, 0))
  IN  call.op = "pekar" /\ mica # NULL
        => /\ ShortestPathLength(Loaded, mica, call.term1) # Null
           /\ ShortestPathLength(Loaded, mica, call.term2) # Null
           /\ ShortestPathLength(Loaded, root, mica) # Null
           /\ call.result = Null
                => /\ ResolveTerm(Loaded, call.term1)
                       = ResolveTerm(Loaded, call.term2)
                   /\ GetAncestors(Loaded, call.term1) = <<>>

====
